---------------------------- MODULE Spec2Model ----------------------------
(***************************************************************************)
(* A verification model of yt-dlpp.                                        *)
(*                                                                         *)
(* Part I   the extraction session (src/src/youtube/extractor.cpp,         *)
(*          AsyncSession and Extractor::Impl), run on an io_context that   *)
(*          one thread drives (src/src/main.cpp:593), with the JS worker   *)
(*          thread (src/src/scripting/js_engine_v8.cpp) beside it.         *)
(*                                                                         *)
(* Every part has its own initial predicate, next-state relation and       *)
(* specification; the variables of the other parts stay at their idle      *)
(* values.                                                                 *)
(***************************************************************************)
EXTENDS Integers, Sequences, FiniteSets, TLC

VARIABLES
    \* ---- Part I: AsyncSession --------------------------------------
    pc,                 \* the step the session waits in
    cancelled,          \* AsyncSession::cancelled
    shutdown_flag,      \* Extractor::Impl::shutdown_flag (JS engine stopped too)
    watch,              \* history: how the watch page fetch ended
    solverReady,        \* the decipherer has a ready solver
    cstate,             \* per client: its Innertube request, and how it ended
    pending_clients_,   \* AsyncSession::pending_clients_
    responses,          \* AsyncSession::responses (accepted, in push order)
    fmtTodo,            \* finish(): format JSONs the loop has not dispatched
    pendingFmt,         \* finish(): the shared counter `pending`
    jsQueue,            \* jobs posted to the JS worker's io_context (FIFO)
    collected_info,     \* AsyncSession::collected_info
    delivered,          \* results handed to the completion handler, in order
    pcAtCancel,         \* history: pc when cancel() was called
    fmtBudget,          \* format JSONs the responses may still carry
    \* ---- Part II: EjsSolver and NativeJsSolver --------------------------
    ejs_ready,          \* EjsSolver::ready_
    native_ready,       \* NativeJsSolver::ready_
    asyncCalls,         \* EjsSolver async solves whose JS call has not ended
    lastSolve,          \* history: the solve that ended last
    \* ---- Part III: parse_format_metadata ------------------------------
    mime_type,          \* the format JSON's mimeType, a sequence of characters
    parsed,             \* the VideoFormat's ext, vcodec and acodec
    fstate,             \* "json" before the call, "parsed" or "threw" after
    \* ---- Part IV: AsyncDownloadSession -------------------------------
    dpc,                \* the operation the download session waits for
    resource,           \* the size of the resource on the server
    total_size_,        \* AsyncDownloadSession::total_size_
    current_offset_,    \* AsyncDownloadSession::current_offset_
    head_phase_,        \* AsyncDownloadSession::head_phase_
    stream_,            \* a connection is set up (stream_ is not null)
    outfile_,           \* the output file: write position and content
    response,           \* the response being read: status, body left, keep-alive
    gets,               \* history: the GET requests sent
    statuses,           \* history: the status of each GET's response
    written,            \* history: number of bytes written to the file
    progress,           \* history: last value and number of runs of progress_cb
    dresult,            \* results handed to the completion handler
    \* ---- Part V: Downloader::Impl::select_streams ---------------------
    formats,            \* info.formats
    selector,           \* the selector argument
    preferred_lang,     \* the optional preferred language: <<>> or <<lang>>
    result,             \* the StreamInfo returned: indexes into formats, 0 = null
    sstate,             \* "call" before select_streams ran, "returned" after
    \* ---- Part VI: AsyncDownloaderSession -----------------------------
    cpc,                \* "Start" before start(), "Started" after
    info_,              \* AsyncDownloaderSession::info_ (its formats)
    merge_fmt_,         \* AsyncDownloaderSession::merge_fmt_: <<>> or <<ext>>
    streams_,           \* AsyncDownloaderSession::streams_
    video_path_,        \* AsyncDownloaderSession::video_path_
    audio_path_,        \* AsyncDownloaderSession::audio_path_
    active_downloads_,  \* AsyncDownloaderSession::active_downloads_
    error_occurred_,    \* AsyncDownloaderSession::error_occurred_
    transfers,          \* per track: "none", "running", "refused", "ok", "failed"
    files,              \* the paths that exist on disk
    muxer,              \* history: the calls of Muxer::merge
    cresult,            \* results handed to the coordinator's handler
    \* ---- Part VII: AudioStream and its decoder thread ------------------
    buffer_queue,       \* AudioStream::Impl::buffer_queue: chunks of bytes
    eof,                \* AudioStream::Impl::eof
    stream_cancelled,   \* AudioStream::Impl::cancelled
    cancel_token,       \* the atomic<bool> the decoder reads
    pending_read,       \* AudioStream::Impl::pending_read: <<>> or <<size>>
    pending_alloc_read, \* AudioStream::Impl::pending_alloc_read is set
    alive,              \* the AudioStream::Impl has not been destroyed
    ppc,                \* the decoder thread: "decoding" or "exited"
    pushed,             \* history: the bytes of the chunks given to push_data
    read_log,           \* history: the completions of the reads, in order
    reads,              \* history: number of reads started
    eof_sets,           \* history: number of calls of set_eof
    frames_after_cancel, \* history: frames decoded after cancel() while alive
    \* ---- Part VIII: JsEngine and its worker thread ----------------------
    isolate,            \* JsEngine::Impl::isolate is not null
    engine_shutdown,    \* JsEngine::Impl::shutdown_flag
    terminating,        \* TerminateExecution() was requested of the isolate
    ioc_stopped,        \* JsEngine::Impl::ioc is stopped
    ioc_queue,          \* the jobs posted to ioc and not yet run
    worker,             \* the worker thread: "starting", "polling", "running", "exited"
    running_job,        \* the job the worker is running, when it runs one
    sdpc,               \* the thread in shutdown(): "out", "entered", "joining"
    shutdown_returns,   \* history: number of calls of shutdown() that returned
    executed,           \* history: the jobs the worker has started
    submitted,          \* history: number of jobs submitted
    job_results,        \* history: the ends of the jobs as their submitters see them
    \* ---- Part IX: parse_search_url -------------------------------------
    search_url,         \* the argument of parse_search_url
    search_opts,        \* what parse_search_url returned
    search_state,       \* "idle", "input" or "parsed"
    \* ---- Part X: the command line program ------------------------------
    argv,               \* the command line, as main's option parser sees it
    cli_pc,             \* where the program is: "main", "run_app", "items",
                        \* "download", "returned", "exited"
    items_left,         \* search results the loop of run_app has yet to do
    g_cancelled,        \* g_cancelled: a signal was received
    exit_status,        \* what main returned, -1 before
    failures,           \* history: the failures the run has reported
    \* ---- Part XI: the response callbacks on several threads ------------
    callback,           \* per client: "flying", "counted" or "done"
    pending_count,      \* AsyncSession::pending_clients_
    stored,             \* the clients whose response is in AsyncSession::responses
    finish_runs,        \* history: number of runs of AsyncSession::finish
    complete_calls,     \* history: number of calls of AsyncSession::complete
    \* ---- Part XII: the two download completions on several threads -----
    dl_pc,              \* per track: "flying", "entered", "loaded", "stored", "done"
    dl_ok,              \* per track: the download's result has no error
    dl_reg,             \* per track: the value its thread read of the counter
    active_count,       \* AsyncDownloaderSession::active_downloads_ (a plain int)
    error_flag,         \* AsyncDownloaderSession::error_occurred_
    joint_results,      \* history: the results complete() was called with
    \* ---- Part XIII: the connection pool of HttpClient ------------------
    conn_pool_,         \* HttpClient::Impl::conn_pool_: per key, the last_used times
    pool_now,           \* steady_clock::now(), in seconds
    in_request,         \* per key: threads inside perform_request with a connection
    last_request,       \* history: how the last request left its connection
    \* ---- Part XIV: the DNS cache and the requests that use it ----------
    cache_,             \* DnsCache::cache_: key -> [results, expires_at]
    dns_now,            \* steady_clock::now(), in minutes
    resolving,          \* the keys with a resolve under way
    dns_event,          \* history: what the last step of a request did
    \* ---- Part XV: EjsSolver objects that share one JsEngine ------------
    preprocessed_player,  \* globalThis._preprocessed_player (0: undefined)
    loaded_player_id,     \* globalThis._loaded_player_id (0: undefined)
    ready_,               \* EjsSolver::ready_ of each solver
    load_pc,              \* where each solver's async_load_player is
    load_arg,             \* the player_code and player_id of that load
    ejs_loaded,           \* history: the player whose preprocessed form each
                          \* solver's last load has produced or found (0: none)
    ejs_solve             \* history: the last solve

sessionVars == <<pc, cancelled, shutdown_flag, watch, solverReady, cstate,
                 pending_clients_, responses, fmtTodo, pendingFmt,
                 jsQueue, collected_info, delivered, pcAtCancel, fmtBudget>>

solverVars == <<ejs_ready, native_ready, asyncCalls, lastSolve>>

formatVars == <<mime_type, parsed, fstate>>

downloadVars == <<dpc, resource, total_size_, current_offset_, head_phase_,
                  stream_, outfile_, response, gets, statuses, written,
                  progress, dresult>>

selectVars == <<formats, selector, preferred_lang, result, sstate>>

coordVars == <<cpc, info_, merge_fmt_, streams_, video_path_, audio_path_,
               active_downloads_, error_occurred_, transfers, files, muxer,
               cresult>>

audioVars == <<buffer_queue, eof, stream_cancelled, cancel_token, pending_read,
               pending_alloc_read, alive, ppc, pushed, read_log, reads,
               eof_sets, frames_after_cancel>>

engineVars == <<isolate, engine_shutdown, terminating, ioc_stopped, ioc_queue,
                worker, running_job, sdpc, shutdown_returns, executed,
                submitted, job_results>>

searchVars == <<search_url, search_opts, search_state>>

cliVars == <<argv, cli_pc, items_left, g_cancelled, exit_status, failures>>

threadsVars == <<callback, pending_count, stored, finish_runs, complete_calls>>

jointVars == <<dl_pc, dl_ok, dl_reg, active_count, error_flag, joint_results>>

poolVars == <<conn_pool_, pool_now, in_request, last_request>>

dnsVars == <<cache_, dns_now, resolving, dns_event>>

ejsVars == <<preprocessed_player, loaded_player_id, ready_, load_pc, load_arg,
             ejs_loaded, ejs_solve>>

vars == <<sessionVars, solverVars, formatVars, downloadVars, selectVars,
          coordVars, audioVars, engineVars, searchVars, cliVars, threadsVars,
          jointVars, poolVars, dnsVars, ejsVars>>

\* What the steps of one part leave alone.
notEjsVars ==
    <<sessionVars, solverVars, formatVars, downloadVars, selectVars,
      coordVars, audioVars, engineVars, searchVars, cliVars, threadsVars,
      jointVars, poolVars, dnsVars>>
notDnsVars ==
    <<sessionVars, solverVars, formatVars, downloadVars, selectVars,
      coordVars, audioVars, engineVars, searchVars, cliVars, threadsVars,
      jointVars, poolVars, ejsVars>>
notPoolVars ==
    <<sessionVars, solverVars, formatVars, downloadVars, selectVars,
      coordVars, audioVars, engineVars, searchVars, cliVars, threadsVars,
      jointVars, dnsVars, ejsVars>>
notJointVars ==
    <<sessionVars, solverVars, formatVars, downloadVars, selectVars,
      coordVars, audioVars, engineVars, searchVars, cliVars, threadsVars,
      poolVars, dnsVars, ejsVars>>
notThreadsVars ==
    <<sessionVars, solverVars, formatVars, downloadVars, selectVars,
      coordVars, audioVars, engineVars, searchVars, cliVars, jointVars,
      poolVars, dnsVars, ejsVars>>
notCliVars ==
    <<sessionVars, solverVars, formatVars, downloadVars, selectVars,
      coordVars, audioVars, engineVars, searchVars, threadsVars,
      jointVars, poolVars, dnsVars, ejsVars>>
notSearchVars ==
    <<sessionVars, solverVars, formatVars, downloadVars, selectVars,
      coordVars, audioVars, engineVars, cliVars, threadsVars, jointVars,
      poolVars, dnsVars, ejsVars>>
notEngineVars ==
    <<sessionVars, solverVars, formatVars, downloadVars, selectVars,
      coordVars, audioVars, searchVars, cliVars, threadsVars, jointVars,
      poolVars, dnsVars, ejsVars>>
notSessionVars ==
    <<solverVars, formatVars, downloadVars, selectVars, coordVars,
      audioVars, engineVars, searchVars, cliVars, threadsVars, jointVars,
      poolVars, dnsVars, ejsVars>>
notSolverVars ==
    <<sessionVars, formatVars, downloadVars, selectVars, coordVars,
      audioVars, engineVars, searchVars, cliVars, threadsVars, jointVars,
      poolVars, dnsVars, ejsVars>>
notFormatVars ==
    <<sessionVars, solverVars, downloadVars, selectVars, coordVars,
      audioVars, engineVars, searchVars, cliVars, threadsVars, jointVars,
      poolVars, dnsVars, ejsVars>>
notDownloadVars ==
    <<sessionVars, solverVars, formatVars, selectVars, coordVars,
      audioVars, engineVars, searchVars, cliVars, threadsVars, jointVars,
      poolVars, dnsVars, ejsVars>>
notSelectVars ==
    <<sessionVars, solverVars, formatVars, downloadVars, coordVars,
      audioVars, engineVars, searchVars, cliVars, threadsVars, jointVars,
      poolVars, dnsVars, ejsVars>>
notAudioVars ==
    <<sessionVars, solverVars, formatVars, downloadVars, selectVars,
      coordVars, engineVars, searchVars, cliVars, threadsVars, jointVars,
      poolVars, dnsVars, ejsVars>>
notCoordVars ==
    <<sessionVars, solverVars, formatVars, downloadVars, selectVars,
      audioVars, engineVars, searchVars, cliVars, threadsVars, jointVars,
      poolVars, dnsVars, ejsVars>>

\* The values the variables of a part have while another part runs.
NoSolve == [solver |-> "none", op |-> "none", input |-> "", ready |-> FALSE,
            reply |-> "none", output |-> ""]

SessionIdle ==
    /\ pc = "Idle"
    /\ cancelled = FALSE
    /\ shutdown_flag = FALSE
    /\ watch = "none"
    /\ solverReady = FALSE
    /\ cstate = <<>>
    /\ pending_clients_ = 0
    /\ responses = <<>>
    /\ fmtTodo = <<>>
    /\ pendingFmt = 0
    /\ jsQueue = <<>>
    /\ collected_info = <<>>
    /\ delivered = <<>>
    /\ pcAtCancel = "none"
    /\ fmtBudget = 0

SolverIdle ==
    /\ ejs_ready = FALSE
    /\ native_ready = FALSE
    /\ asyncCalls = <<>>
    /\ lastSolve = NoSolve

FormatIdle ==
    /\ mime_type = <<>>
    /\ parsed = <<>>
    /\ fstate = "idle"

NoResponse == [status |-> 0, from |-> 0, left |-> 0, keep_alive |-> FALSE]

DownloadIdle ==
    /\ dpc = "idle"
    /\ resource = 0
    /\ total_size_ = -1
    /\ current_offset_ = 0
    /\ head_phase_ = FALSE
    /\ stream_ = FALSE
    /\ outfile_ = [pos |-> 0, data |-> <<>>]
    /\ response = NoResponse
    /\ gets = <<>>
    /\ statuses = <<>>
    /\ written = 0
    /\ progress = [last |-> 0, runs |-> 0]
    /\ dresult = <<>>

\* StreamInfo{}: both pointers are null.
NoStreams == [video |-> 0, audio |-> 0]

SelectIdle ==
    /\ formats = <<>>
    /\ selector = ""
    /\ preferred_lang = <<>>
    /\ result = NoStreams
    /\ sstate = "idle"

CoordIdle ==
    /\ cpc = "idle"
    /\ info_ = <<>>
    /\ merge_fmt_ = <<>>
    /\ streams_ = NoStreams
    /\ video_path_ = <<>>
    /\ audio_path_ = <<>>
    /\ active_downloads_ = 0
    /\ error_occurred_ = FALSE
    /\ transfers = [video |-> "none", audio |-> "none"]
    /\ files = {}
    /\ muxer = <<>>
    /\ cresult = <<>>

AudioIdle ==
    /\ buffer_queue = <<>>
    /\ eof = FALSE
    /\ stream_cancelled = FALSE
    /\ cancel_token = FALSE
    /\ pending_read = <<>>
    /\ pending_alloc_read = FALSE
    /\ alive = FALSE
    /\ ppc = "idle"
    /\ pushed = <<>>
    /\ read_log = <<>>
    /\ reads = 0
    /\ eof_sets = 0
    /\ frames_after_cancel = 0

NoJob == [id |-> 0, kind |-> "none", mode |-> "none"]

EngineIdle ==
    /\ isolate = FALSE
    /\ engine_shutdown = FALSE
    /\ terminating = FALSE
    /\ ioc_stopped = FALSE
    /\ ioc_queue = <<>>
    /\ worker = "none"
    /\ running_job = NoJob
    /\ sdpc = "out"
    /\ shutdown_returns = 0
    /\ executed = <<>>
    /\ submitted = 0
    /\ job_results = <<>>

SearchIdle ==
    /\ search_url = <<>>
    /\ search_opts = [valid |-> FALSE]
    /\ search_state = "idle"

NoArgs == [unknown_option |-> FALSE, help |-> FALSE, manual_merge |-> -1,
           url |-> "none", flag |-> "none"]

CliIdle ==
    /\ argv = NoArgs
    /\ cli_pc = "idle"
    /\ items_left = 0
    /\ g_cancelled = FALSE
    /\ exit_status = -1
    /\ failures = {}

ThreadsIdle ==
    /\ callback = <<>>
    /\ pending_count = 0
    /\ stored = <<>>
    /\ finish_runs = 0
    /\ complete_calls = 0

JointIdle ==
    /\ dl_pc = <<>>
    /\ dl_ok = <<>>
    /\ dl_reg = <<>>
    /\ active_count = 0
    /\ error_flag = FALSE
    /\ joint_results = <<>>

NoRequest == [path |-> "none", key |-> 0, keep_alive |-> FALSE, before |-> 0,
              after |-> 0, connection |-> "none"]

PoolIdle ==
    /\ conn_pool_ = <<>>
    /\ pool_now = 0
    /\ in_request = <<>>
    /\ last_request = NoRequest

NoEvent == [kind |-> "none", key |-> 0, results |-> 0, put |-> FALSE]

DnsIdle ==
    /\ cache_ = <<>>
    /\ dns_now = 0
    /\ resolving = {}
    /\ dns_event = NoEvent

NoLoad == [player_code |-> 0, player_id |-> 0]

NoEjsSolve == [solver |-> 0, ready |-> FALSE, player |-> 0, loaded |-> 0]

EjsIdle ==
    /\ preprocessed_player = 0
    /\ loaded_player_id = 0
    /\ ready_ = <<>>
    /\ load_pc = <<>>
    /\ load_arg = <<>>
    /\ ejs_loaded = <<>>
    /\ ejs_solve = NoEjsSolve

-----------------------------------------------------------------------------
(* Bounds of the model *)

\* Format JSONs all responses of one session carry together.
MaxTotalFmts == 2

-----------------------------------------------------------------------------
(* Part I: data *)

\* AsyncSession::get_clients(): android_sdkless, tv, web_safari, web, by
\* their position in the list.
NumClients == 4

Clients == 1..NumClients

\* A format JSON, by what async_process_fmt reads of it:
\*   url    "url" is present and non-empty
\*   cipher "signatureCipher" is present
\*   s      the cipher has a non-empty s field
\*   curl   the cipher has a non-empty url field
\*   n      the URL's query carries a non-empty n parameter
Shape(u, c, s, cu, n) == [url |-> u, cipher |-> c, s |-> s, curl |-> cu, n |-> n]

PlainUrl == Shape(TRUE, FALSE, FALSE, FALSE, FALSE)
UrlWithN == Shape(TRUE, FALSE, FALSE, FALSE, TRUE)
Ciphered == Shape(FALSE, TRUE, TRUE, TRUE, TRUE)
CipherNoS == Shape(FALSE, TRUE, FALSE, TRUE, FALSE)

\* The format JSONs the modelled responses carry: two itags, each in a shape
\* that is finished in place and in a shape that needs the solver or is
\* skipped.
FormatJsons == { [itag |-> 18, shape |-> PlainUrl],
                 [itag |-> 18, shape |-> UrlWithN],
                 [itag |-> 140, shape |-> Ciphered],
                 [itag |-> 140, shape |-> CipherNoS] }

RECURSIVE SeqsUpTo(_, _)
SeqsUpTo(S, n) ==
    IF n = 0 THEN { <<>> }
    ELSE LET shorter == SeqsUpTo(S, n - 1)
         IN  shorter \cup { Append(q, x) : q \in { r \in shorter : Len(r) = n - 1 }, x \in S }

\* What a client's request can come back with.
FailedAnswers == { "error", "non200", "badjson" }
AnswerKinds == FailedAnswers \cup { "unplayable", "ok", "nostatus" }

NoInfo == [metaSrc |-> 0, formats |-> <<>>]

Ok(info) == [kind |-> "ok", code |-> "success", info |-> info]
Err(code) == [kind |-> "err", code |-> code, info |-> NoInfo]

-----------------------------------------------------------------------------
(* Part I: per-format URL reconstruction *)

\* A URL is the sequence of its parts: the base, then query parameters as
\* <<key, value>> pairs. The empty sequence is the empty string.
BaseUrl == << <<"base", "U">> >>

QueryN(shape) == IF shape.n THEN << <<"n", "raw">> >> ELSE <<>>

\* fmt_json.value("url", "")
JsonUrl(shape) == IF shape.url THEN BaseUrl \o QueryN(shape) ELSE <<>>

\* The url and s fields decoded from signatureCipher.
CipherUrl(shape) == IF shape.curl THEN BaseUrl \o QueryN(shape) ELSE <<>>

CipherS(shape) == IF shape.s THEN "raw" ELSE ""

\* The value of the first query parameter named n, "" when there is none.
NValue(url) ==
    LET idx == { i \in 1..Len(url) : url[i][1] = "n" }
    IN  IF idx = {} THEN ""
        ELSE url[CHOOSE i \in idx : \A j \in idx : i <= j][2]

\* params.replace(params.find("n"), {"n", new_n})
ReplaceN(url, new_n) ==
    LET idx == { i \in 1..Len(url) : url[i][1] = "n" }
    IN  IF idx = {} THEN url
        ELSE [url EXCEPT ![CHOOSE i \in idx : \A j \in idx : i <= j] = <<"n", new_n>>]

\* What one step of a format's processing ends in: a job for the JS worker,
\* the finished format, or nothing (the format is skipped).
StepJob(op, fmt, url, arg) == [next |-> "job", op |-> op, fmt |-> fmt, url |-> url, arg |-> arg]
StepDone(fmt, url) == [next |-> "done", op |-> "", fmt |-> [fmt EXCEPT !.url = url], url |-> url, arg |-> ""]
StepDrop(fmt) == [next |-> "drop", op |-> "", fmt |-> fmt, url |-> <<>>, arg |-> ""]

\* SigDecipherer::async_decipher_signature_impl and async_transform_n_impl
\* are declared in decipher.hpp, which holds an EjsSolver and a NativeJsSolver,
\* but their bodies are not among the sources. Following the specification
\* (section 4.3), the call goes to the solver that is ready, which answers
\* from the JS worker (job), and without a ready solver the handler gets its
\* input back in place (inline).
DeciphererSolve(ready, job, inline) == IF ready THEN job ELSE inline

\* async_process_url_n: a URL with an n parameter has it transformed, through
\* the JS worker when a solver is ready and in place (identity) when not.
ProcessUrlN(fmt, url, ready) ==
    IF NValue(url) # ""
    THEN DeciphererSolve(ready, StepJob("n", fmt, url, NValue(url)),
                         StepDone(fmt, ReplaceN(url, NValue(url))))
    ELSE StepDone(fmt, url)

\* The continuation of async_decipher_signature: append sp=sig, then the n step.
AfterSig(fmt, url_raw, sig, ready) ==
    ProcessUrlN(fmt, url_raw \o << <<"sig", sig>> >>, ready)

\* async_process_fmt
ProcessFmt(fj, ready) ==
    LET fmt == [itag |-> fj.itag, url |-> JsonUrl(fj.shape), src |-> fj.src]
    IN  IF fmt.url = <<>> /\ fj.shape.cipher
           /\ CipherUrl(fj.shape) # <<>> /\ CipherS(fj.shape) # ""
        THEN DeciphererSolve(ready,
                 StepJob("sig", fmt, CipherUrl(fj.shape), CipherS(fj.shape)),
                 AfterSig(fmt, CipherUrl(fj.shape), CipherS(fj.shape), ready))
        ELSE IF fmt.url # <<>>
             THEN ProcessUrlN(fmt, fmt.url, ready)
             ELSE StepDrop(fmt)

\* A solve hands back the solver's value, or its input when the JS call
\* fails or yields nothing.
SolveResult(arg, solved) == IF solved THEN "solved" ELSE arg

\* The handler a JS job runs on the worker when it ends.
JobDone(job, solved) ==
    IF job.op = "sig"
    THEN AfterSig(job.fmt, job.url, SolveResult(job.arg, solved), TRUE)
    ELSE StepDone(job.fmt, ReplaceN(job.url, SolveResult(job.arg, solved)))

\* finalize_formats: keep the first format of every itag.
\* (DedupNone is a faulty variant that keeps every format.)
DedupNone(fmts) == fmts

RECURSIVE DedupFrom(_, _, _)
DedupFrom(fmts, seen, acc) ==
    IF fmts = <<>> THEN acc
    ELSE IF Head(fmts).itag \in seen
         THEN DedupFrom(Tail(fmts), seen, acc)
         ELSE DedupFrom(Tail(fmts), seen \cup { Head(fmts).itag }, Append(acc, Head(fmts)))

Dedup(fmts) == DedupFrom(fmts, {}, <<>>)

\* finish(): the format JSONs of all responses, in the order of responses.
RECURSIVE AllFormatJsons(_)
AllFormatJsons(resps) ==
    IF resps = <<>> THEN <<>>
    ELSE [ i \in 1..Len(Head(resps).formats) |->
             [itag |-> Head(resps).formats[i].itag,
              shape |-> Head(resps).formats[i].shape,
              src |-> Head(resps).client] ]
         \o AllFormatJsons(Tail(resps))

\* The response callback's test of playabilityStatus.
\* (AcceptedAnyStatus is a faulty variant that takes every parsed answer.)
AcceptedAnyStatus(kind) == kind \notin FailedAnswers

Accepted(kind) == kind \in { "ok", "nostatus" }

\* How a request ended, as cstate keeps it: the client failed or answered
\* with a playabilityStatus other than OK, or it answered a playable video.
AnswerClass(kind) ==
    IF kind \in FailedAnswers \cup { "unplayable" } THEN "rejected" ELSE "playable"

-----------------------------------------------------------------------------
(* Part I: the session's steps *)

InitSession ==
    /\ EjsIdle
    /\ DnsIdle
    /\ PoolIdle
    /\ JointIdle
    /\ ThreadsIdle
    /\ CliIdle
    /\ SearchIdle
    /\ EngineIdle
    /\ AudioIdle
    /\ SelectIdle
    /\ CoordIdle
    /\ pc = "Created"
    /\ cancelled = FALSE
    /\ shutdown_flag = FALSE
    /\ watch = "none"
    /\ solverReady = FALSE
    /\ cstate = [c \in Clients |-> "idle"]
    /\ pending_clients_ = 0
    /\ responses = <<>>
    /\ fmtTodo = <<>>
    /\ pendingFmt = 0
    /\ jsQueue = <<>>
    /\ collected_info = NoInfo
    /\ delivered = <<>>
    /\ pcAtCancel = "none"
    /\ fmtBudget = MaxTotalFmts
    /\ SolverIdle
    /\ FormatIdle
    /\ DownloadIdle

\* complete(res): the handler is dispatched with the result.
Complete(res) ==
    /\ delivered' = Append(delivered, res)
    /\ pc' = "Done"

\* start(): an URL without a video id ends the session at once.
Start(urlOk) ==
    /\ pc = "Created"
    /\ ~cancelled
    /\ IF urlOk
       THEN /\ pc' = "FetchWatchPage"
            /\ UNCHANGED delivered
       ELSE Complete(Err("invalid_url"))
    /\ UNCHANGED <<cancelled, shutdown_flag, watch, solverReady, cstate,
                   pending_clients_, responses, fmtTodo, pendingFmt, jsQueue,
                   collected_info, pcAtCancel, fmtBudget>>
    /\ UNCHANGED notSessionVars

\* on_script(content): with a player script the solver is loaded, without
\* one the session goes on to the TV configuration.
OnScript(hasContent) ==
    pc' = IF hasContent THEN "LoadSolver" ELSE "FetchTvConfig"

WatchOutcomes == { "error", "non200", "no_player_url", "cached", "download" }

\* PlayerScript::async_fetch, the watch page's answer. A player script that
\* is not cached is fetched with a second GET, the other outcomes call back.
WatchPageDone(res) ==
    /\ pc = "FetchWatchPage"
    /\ watch' = IF res \in { "error", "non200" } THEN "failed" ELSE "ok"
    /\ IF res = "download"
       THEN pc' = "FetchPlayerScript"
       ELSE /\ ~cancelled
            /\ OnScript(res = "cached")
    /\ UNCHANGED <<cancelled, shutdown_flag, solverReady, cstate,
                   pending_clients_, responses, fmtTodo, pendingFmt, jsQueue,
                   collected_info, delivered, pcAtCancel, fmtBudget>>
    /\ UNCHANGED notSessionVars

\* PlayerScript::async_fetch, the player script's answer.
PlayerScriptDone(res) ==
    /\ pc = "FetchPlayerScript"
    /\ ~cancelled
    /\ OnScript(res = "ok")
    /\ UNCHANGED <<cancelled, shutdown_flag, watch, solverReady, cstate,
                   pending_clients_, responses, fmtTodo, pendingFmt, jsQueue,
                   collected_info, delivered, pcAtCancel, fmtBudget>>
    /\ UNCHANGED notSessionVars

\* The callback of async_load_functions: whatever the outcome, the TV
\* configuration is fetched next.
SolverLoaded(success) ==
    /\ pc = "LoadSolver"
    /\ ~cancelled
    /\ ~shutdown_flag
    /\ solverReady' = success
    /\ pc' = "FetchTvConfig"
    /\ UNCHANGED <<cancelled, shutdown_flag, watch, cstate,
                   pending_clients_, responses, fmtTodo, pendingFmt, jsQueue,
                   collected_info, delivered, pcAtCancel, fmtBudget>>
    /\ UNCHANGED notSessionVars

\* The callback of fetch_tv_config, which ends in fetch_all_clients(): one
\* request per client.
TvConfigDone(res) ==
    /\ pc = "FetchTvConfig"
    /\ ~cancelled
    /\ res \in { "error", "non200", "ok" }
    /\ pending_clients_' = NumClients
    /\ cstate' = [c \in Clients |-> "inflight"]
    /\ pc' = "FanOut"
    /\ UNCHANGED <<cancelled, shutdown_flag, watch, solverReady,
                   responses, fmtTodo, pendingFmt, jsQueue, collected_info,
                   delivered, pcAtCancel, fmtBudget>>
    /\ UNCHANGED notSessionVars

\* finalize_formats(): deduplicate, then complete with the video info.
FinalizeFormats(info) ==
    /\ Complete(Ok([info EXCEPT !.formats = Dedup(info.formats)]))
    /\ collected_info' = NoInfo

\* finish(): no accepted response is video_not_found; otherwise the
\* metadata of responses[0] and the formats of all responses.
Finish(resps) ==
    IF resps = <<>>
    THEN /\ Complete(Err("video_not_found"))
         /\ UNCHANGED <<collected_info, fmtTodo, pendingFmt>>
    ELSE LET info == [collected_info EXCEPT !.metaSrc = resps[1].client]
             all == AllFormatJsons(resps)
         IN  IF all = <<>>
             THEN /\ FinalizeFormats(info)
                  /\ UNCHANGED <<fmtTodo, pendingFmt>>
             ELSE /\ collected_info' = info
                  /\ fmtTodo' = all
                  /\ pendingFmt' = Len(all)
                  /\ pc' = "BuildFormats"
                  /\ UNCHANGED delivered

\* The callback of one client's request in fetch_all_clients().
ClientResponse(c, kind, fmts) ==
    /\ pc = "FanOut"
    /\ cstate[c] = "inflight"
    /\ ~cancelled
    /\ Accepted(kind) \/ fmts = <<>>
    /\ cstate' = [cstate EXCEPT ![c] = AnswerClass(kind)]
    /\ fmtBudget' = fmtBudget - Len(fmts)
    /\ responses' = IF Accepted(kind)
                    THEN Append(responses, [client |-> c, formats |-> fmts])
                    ELSE responses
    /\ pending_clients_' = pending_clients_ - 1
    /\ IF pending_clients_' = 0
       THEN Finish(responses')
       ELSE UNCHANGED <<pc, delivered, collected_info, fmtTodo, pendingFmt>>
    /\ UNCHANGED <<cancelled, shutdown_flag, watch, solverReady, jsQueue,
                   pcAtCancel>>
    /\ UNCHANGED notSessionVars

\* The callback finish() gives async_process_fmt: a finished format is
\* pushed to collected_info.formats, the counter goes down by one.
Collect(r) ==
    IF r.next = "done"
    THEN [collected_info EXCEPT !.formats = Append(@, r.fmt)]
    ELSE collected_info

\* One iteration of the loop of finish(): a format is finished or skipped
\* in place, or its first JS job is posted to the worker. The callback that
\* brings the counter to zero dispatches finalize_formats(), which runs in
\* place on the session's own thread.
DispatchFmt ==
    /\ pc = "BuildFormats"
    /\ fmtTodo # <<>>
    /\ LET r == ProcessFmt(Head(fmtTodo), solverReady)
       IN  /\ fmtTodo' = Tail(fmtTodo)
           /\ IF r.next = "job"
              THEN /\ jsQueue' = Append(jsQueue, r)
                   /\ UNCHANGED <<pendingFmt, collected_info, pc, delivered>>
              ELSE /\ pendingFmt' = pendingFmt - 1
                   /\ UNCHANGED jsQueue
                   /\ IF pendingFmt' = 0
                      THEN FinalizeFormats(Collect(r))
                      ELSE /\ collected_info' = Collect(r)
                           /\ UNCHANGED <<pc, delivered>>
    /\ UNCHANGED <<cancelled, shutdown_flag, watch, solverReady, cstate,
                   pending_clients_, responses, pcAtCancel, fmtBudget>>
    /\ UNCHANGED notSessionVars

\* The JS worker runs the job at the head of its queue and calls the job's
\* handler on the worker thread: a signature job goes on to the n step, an
\* n job finishes the format. The callback that brings the counter to zero
\* posts finalize_formats() to the handler's executor.
JsRun(solved) ==
    /\ jsQueue # <<>>
    /\ ~shutdown_flag
    /\ LET r == JobDone(Head(jsQueue), solved)
       IN  IF r.next = "job"
           THEN /\ jsQueue' = Append(Tail(jsQueue), r)
                /\ UNCHANGED <<pendingFmt, collected_info, pc>>
           ELSE /\ jsQueue' = Tail(jsQueue)
                /\ pendingFmt' = pendingFmt - 1
                /\ collected_info' = Collect(r)
                /\ pc' = IF pendingFmt' = 0 THEN "Finalizing" ELSE pc
    /\ UNCHANGED <<cancelled, shutdown_flag, watch, solverReady, cstate,
                   pending_clients_, responses, fmtTodo, delivered, pcAtCancel,
                   fmtBudget>>
    /\ UNCHANGED notSessionVars

\* The posted finalize_formats() runs.
FinalizeRun ==
    /\ pc = "Finalizing"
    /\ FinalizeFormats(collected_info)
    /\ UNCHANGED <<cancelled, shutdown_flag, watch, solverReady, cstate,
                   pending_clients_, responses, fmtTodo, pendingFmt, jsQueue,
                   pcAtCancel, fmtBudget>>
    /\ UNCHANGED notSessionVars

\* Extractor::Impl::shutdown(): once; every live session is cancelled and
\* the JS engine is shut down, its worker stopped.
Shutdown ==
    /\ ~shutdown_flag
    /\ shutdown_flag' = TRUE
    /\ IF pc \notin { "Created", "Done" }
       THEN /\ cancelled' = TRUE
            /\ pcAtCancel' = pc
       ELSE UNCHANGED <<cancelled, pcAtCancel>>
    /\ UNCHANGED <<pc, watch, solverReady, cstate, pending_clients_,
                   responses, fmtTodo, pendingFmt, jsQueue, collected_info,
                   delivered, fmtBudget>>
    /\ UNCHANGED notSessionVars

\* Extractor::Impl::async_process after shutdown(): no session is made, the
\* handler gets request_failed.
ProcessAfterShutdown ==
    /\ pc = "Created"
    /\ shutdown_flag
    /\ Complete(Err("request_failed"))
    /\ UNCHANGED <<cancelled, shutdown_flag, watch, solverReady, cstate,
                   pending_clients_, responses, fmtTodo, pendingFmt, jsQueue,
                   collected_info, pcAtCancel, fmtBudget>>
    /\ UNCHANGED notSessionVars

NextSession ==
    \/ \E urlOk \in BOOLEAN : ~shutdown_flag /\ Start(urlOk)
    \/ \E res \in WatchOutcomes : WatchPageDone(res)
    \/ \E res \in { "error", "non200", "ok" } : PlayerScriptDone(res)
    \/ \E success \in BOOLEAN : SolverLoaded(success)
    \/ \E res \in { "error", "non200", "ok" } : TvConfigDone(res)
    \/ \E c \in Clients, kind \in AnswerKinds :
          \E fmts \in IF Accepted(kind) THEN SeqsUpTo(FormatJsons, fmtBudget) ELSE { <<>> } :
             ClientResponse(c, kind, fmts)
    \/ DispatchFmt
    \/ \E solved \in BOOLEAN : JsRun(solved)
    \/ FinalizeRun

SpecSession == InitSession /\ [][NextSession]_vars

\* The session with a shutdown() that may come at any moment.
NextCancel ==
    \/ NextSession
    \/ Shutdown
    \/ ProcessAfterShutdown

SpecCancel == InitSession /\ [][NextCancel]_vars

-----------------------------------------------------------------------------
(* Part I: properties of the session *)

OkResults == { i \in 1..Len(delivered) : delivered[i].kind = "ok" }

\* The clients whose response was accepted.
AcceptedClients == { c \in Clients : cstate[c] = "playable" }

AllAnswered == \A c \in Clients : cstate[c] \in { "rejected", "playable" }

Min(S) == CHOOSE x \in S : \A y \in S : x <= y

\* The format JSONs of the accepted responses that async_process_fmt does
\* not skip.
UsableJsons ==
    { fj \in { AllFormatJsons(responses)[i] : i \in 1..Len(AllFormatJsons(responses)) } :
        ProcessFmt(fj, solverReady).next # "drop" }

\* C1: every VideoInfo delivered as Ok has pairwise distinct itags and no
\* format with an empty url, whatever the responses and the order of the
\* responses and of the solver's callbacks.
C1_UniqueItagsNonEmptyUrl ==
    \A i \in OkResults :
        LET f == delivered[i].info.formats
        IN  /\ \A a, b \in 1..Len(f) : a # b => f[a].itag # f[b].itag
            /\ \A a \in 1..Len(f) : f[a].url # <<>>

\* C1 witness: an Ok result that kept one format of two usable ones with the
\* same itag that two clients carried, its URL finished by the JS worker.
C1_Witness ==
    /\ solverReady
    /\ \E fj, gj \in UsableJsons : fj.itag = gj.itag /\ fj.src # gj.src
    /\ \E i \in OkResults :
          /\ Len(delivered[i].info.formats) = 1
          /\ NValue(delivered[i].info.formats[1].url) = "solved"

\* C2: the metadata of an Ok result is taken from the accepted response of
\* the earliest client in priority order.
C2_PrimaryIsEarliestAccepted ==
    \A i \in OkResults : delivered[i].info.metaSrc = Min(AcceptedClients)

\* C3: of the formats with one itag that accepted responses carry, the one
\* kept in an Ok result comes from the earliest client in priority order.
C3_KeptFromEarliestClient ==
    \A i \in OkResults :
        \A a \in 1..Len(delivered[i].info.formats) :
            LET f == delivered[i].info.formats[a]
            IN  f.src = Min({ fj.src : fj \in { gj \in UsableJsons : gj.itag = f.itag } })

\* C4: once every client of the fan-out has answered, the session has
\* completed with Err(video_not_found) if and only if no answer was accepted
\* (each client failed or reported a playabilityStatus other than OK); with
\* an accepted answer it goes on to build formats and completes only as Ok.
C4_NotFoundIffNoneAccepted ==
    /\ (pc \in { "FanOut", "BuildFormats", "Finalizing" }) => delivered = <<>>
    /\ AllAnswered =>
          IF AcceptedClients = {}
          THEN pc = "Done" /\ delivered = << Err("video_not_found") >>
          ELSE /\ pc \in { "BuildFormats", "Finalizing", "Done" }
               /\ Err("video_not_found") \notin { delivered[i] : i \in 1..Len(delivered) }
               /\ pc = "Done" => Len(delivered) = 1 /\ delivered[1].kind = "ok"
    /\ (Err("video_not_found") \in { delivered[i] : i \in 1..Len(delivered) })
          => AllAnswered /\ AcceptedClients = {}

\* C4 witness: all four clients were rejected and the session ended with
\* video_not_found.
C4_Witness ==
    /\ AllAnswered
    /\ AcceptedClients = {}
    /\ pc = "Done"
    /\ delivered = << Err("video_not_found") >>

\* C5: after shutdown() cancelled the session, the session stays in the step
\* it was cancelled in until its handler is invoked, once, with an error
\* (result.hpp has no error kind of its own for cancellation, so any error
\* counts).
C5_CancelStopsSession ==
    cancelled =>
        \/ pc = pcAtCancel /\ delivered = <<>>
        \/ /\ pc = "Done"
           /\ Len(delivered) = 1
           /\ delivered[1].kind = "err"

\* C7: when the watch page fetch fails the session ends with
\* Err(request_failed) and neither fetches the TV configuration nor fans out.
C7_WatchFailureIsRequestFailed ==
    watch = "failed" =>
        /\ pc = "Done"
        /\ delivered = << Err("request_failed") >>
        /\ \A c \in Clients : cstate[c] = "idle"

-----------------------------------------------------------------------------
(* Part II: the solvers' solve functions (src/src/ejs_solver.cpp,            *)
(* src/src/scripting/native_js_solver.cpp)                                   *)

\* Async solves of EjsSolver that may wait for their JS call at one time.
MaxAsyncCalls == 1

\* The challenges (signatures, n parameters) handed to the solvers.
Challenges == { "c1", "c2" }

\* The values the data object of a solver response holds: a string, and
\* "{}" for a value that is no string.
JsonValues == { "out", "{}" }

\* The data objects: a value for some of the challenges.
DataObjects == UNION { [S -> JsonValues] : S \in SUBSET Challenges }

\* What the JS call of an EjsSolver solve can come back with: an error, a
\* string that is no JSON object, or the object {type, responses} with no
\* response or with a first response {type, data}.
EjsReplies ==
    { [kind |-> "error"], [kind |-> "badjson"] }
    \cup { [kind |-> "json", type |-> t, responses |-> <<>>] : t \in { "result", "error" } }
    \cup { [kind |-> "json", type |-> t, responses |-> << [type |-> rt, data |-> d] >>] :
             t \in { "result", "error" }, rt \in { "result", "error" }, d \in DataObjects }

\* What the JS call of a NativeJsSolver solve can come back with: an error
\* or the printed value.
NativeReplies == { [kind |-> "error"] }
                 \cup { [kind |-> "value", value |-> v] : v \in { "null", "", "out" } }

\* The result EjsSolver takes from the reply, as solve_sig and solve_n and
\* the callbacks of async_solve_sig_impl and async_solve_n_impl read it.
\* get<std::string>() of a value that is no string throws, which the catch
\* turns into the input.
\* (EjsResultOrEmpty is a faulty variant that answers "" without a result.)
EjsResultOrEmpty(reply, input) ==
    IF reply.kind = "json" /\ reply.responses # <<>>
       /\ input \in DOMAIN reply.responses[1].data
    THEN reply.responses[1].data[input]
    ELSE ""

EjsResult(reply, input) ==
    IF reply.kind = "error" THEN input
    ELSE IF reply.kind = "badjson" THEN input
    ELSE IF reply.type = "result" /\ reply.responses # <<>>
         THEN LET resp == reply.responses[1]
              IN  IF resp.type = "result" /\ input \in DOMAIN resp.data
                  THEN IF resp.data[input] = "{}" THEN input ELSE resp.data[input]
                  ELSE input
         ELSE input

\* The result NativeJsSolver takes from the reply.
NativeResult(reply, input) ==
    IF reply.kind = "value" /\ reply.value # "null" /\ reply.value # ""
    THEN reply.value
    ELSE input

Solved(solver, op, input, ready, reply, output) ==
    [solver |-> solver, op |-> op, input |-> input, ready |-> ready,
     reply |-> reply, output |-> output]

NoReply == [kind |-> "nocall"]

InitSolver ==
    /\ EjsIdle
    /\ DnsIdle
    /\ PoolIdle
    /\ JointIdle
    /\ ThreadsIdle
    /\ CliIdle
    /\ SearchIdle
    /\ EngineIdle
    /\ AudioIdle
    /\ SelectIdle
    /\ CoordIdle
    /\ SessionIdle
    /\ SolverIdle
    /\ FormatIdle
    /\ DownloadIdle

\* EjsSolver::load_player: ready_ is cleared first and set when the load
\* succeeds.
EjsLoad(success) ==
    /\ ejs_ready' = success
    /\ UNCHANGED <<native_ready, asyncCalls, lastSolve>>
    /\ UNCHANGED notSolverVars

\* EjsSolver::async_load_player_impl: when the solver bundle fails to load
\* ready_ is left as it was; otherwise it is cleared and set when the
\* player is loaded.
EjsAsyncLoad(outcome) ==
    /\ ejs_ready' = IF outcome = "bundle_failed" THEN ejs_ready ELSE outcome = "ok"
    /\ UNCHANGED <<native_ready, asyncCalls, lastSolve>>
    /\ UNCHANGED notSolverVars

\* NativeJsSolver::load_player.
NativeLoad(success) ==
    /\ native_ready' = success
    /\ UNCHANGED <<ejs_ready, asyncCalls, lastSolve>>
    /\ UNCHANGED notSolverVars

\* EjsSolver::solve_sig and solve_n: without a ready solver the input comes
\* back and no JS runs.
EjsSolve(op, input, reply) ==
    /\ lastSolve' = IF ejs_ready
                    THEN Solved("ejs", op, input, TRUE, reply, EjsResult(reply, input))
                    ELSE Solved("ejs", op, input, FALSE, NoReply, input)
    /\ UNCHANGED <<ejs_ready, native_ready, asyncCalls>>
    /\ UNCHANGED notSolverVars

\* NativeJsSolver::solve_sig and solve_n.
NativeSolve(op, input, reply) ==
    /\ lastSolve' = IF native_ready
                    THEN Solved("native", op, input, TRUE, reply, NativeResult(reply, input))
                    ELSE Solved("native", op, input, FALSE, NoReply, input)
    /\ UNCHANGED <<ejs_ready, native_ready, asyncCalls>>
    /\ UNCHANGED notSolverVars

\* EjsSolver::async_solve_sig_impl and async_solve_n_impl, the call: without
\* a ready solver the handler gets the input at once, with one the JS call
\* is posted.
EjsAsyncSolve(op, input) ==
    /\ IF ejs_ready
       THEN /\ Len(asyncCalls) < MaxAsyncCalls
            /\ asyncCalls' = Append(asyncCalls, [op |-> op, input |-> input])
            /\ UNCHANGED lastSolve
       ELSE /\ lastSolve' = Solved("ejs-async", op, input, FALSE, NoReply, input)
            /\ UNCHANGED asyncCalls
    /\ UNCHANGED <<ejs_ready, native_ready>>
    /\ UNCHANGED notSolverVars

\* The callback of async_evaluate_and_get in async_solve_sig_impl and
\* async_solve_n_impl: the handler gets the result read from the reply.
EjsAsyncReply(reply) ==
    /\ asyncCalls # <<>>
    /\ LET call == Head(asyncCalls)
       IN  lastSolve' = Solved("ejs-async", call.op, call.input, TRUE, reply,
                               EjsResult(reply, call.input))
    /\ asyncCalls' = Tail(asyncCalls)
    /\ UNCHANGED <<ejs_ready, native_ready>>
    /\ UNCHANGED notSolverVars

SolveOps == { "sig", "n" }

NextSolver ==
    \/ \E success \in BOOLEAN : EjsLoad(success)
    \/ \E outcome \in { "bundle_failed", "player_failed", "ok" } : EjsAsyncLoad(outcome)
    \/ \E success \in BOOLEAN : NativeLoad(success)
    \/ \E op \in SolveOps, input \in Challenges, reply \in EjsReplies : EjsSolve(op, input, reply)
    \/ \E op \in SolveOps, input \in Challenges, reply \in NativeReplies : NativeSolve(op, input, reply)
    \/ \E op \in SolveOps, input \in Challenges : EjsAsyncSolve(op, input)
    \/ \E reply \in EjsReplies : EjsAsyncReply(reply)

SpecSolver == InitSolver /\ [][NextSolver]_vars

\* The reply holds no result for the input: the JS call failed, or what it
\* printed has no string for the challenge.
NoResultFor(solve) ==
    \/ solve.reply.kind \in { "error", "badjson" }
    \/ /\ solve.reply.kind = "json"
       /\ \/ solve.reply.type # "result"
          \/ solve.reply.responses = <<>>
          \/ /\ solve.reply.responses # <<>>
             /\ \/ solve.reply.responses[1].type # "result"
                \/ solve.input \notin DOMAIN solve.reply.responses[1].data
                \/ /\ solve.input \in DOMAIN solve.reply.responses[1].data
                   /\ solve.reply.responses[1].data[solve.input] = "{}"
    \/ /\ solve.reply.kind = "value"
       /\ solve.reply.value \in { "null", "" }

\* C6: a solve of a solver that is not ready returns its input, and so does
\* a solve whose JS call fails or yields no result.
C6_IdentityWithoutResult ==
    lastSolve.solver # "none" =>
        /\ ~lastSolve.ready => lastSolve.output = lastSolve.input
        /\ (lastSolve.ready /\ NoResultFor(lastSolve)) => lastSolve.output = lastSolve.input

\* C6 witness: an async solve of a ready EjsSolver whose reply has a result
\* for another challenge only, and which handed back its input.
C6_Witness ==
    /\ lastSolve.solver = "ejs-async"
    /\ lastSolve.ready
    /\ lastSolve.reply.kind = "json"
    /\ lastSolve.reply.type = "result"
    /\ lastSolve.reply.responses # <<>>
    /\ DOMAIN lastSolve.reply.responses[1].data = Challenges \ { lastSolve.input }
    /\ lastSolve.output = lastSolve.input

-----------------------------------------------------------------------------
(* Part III: parse_format_metadata (src/src/youtube/extractor.cpp), the      *)
(* part that reads mimeType. Strings are sequences of characters and         *)
(* positions count from 0, as in std::string.                                *)

npos == -1

\* std::string::find(pat, from): the first position at or after from where
\* pat occurs, npos when there is none.
Find(str, pat, from) ==
    LET hits == { i \in from..(Len(str) - Len(pat)) :
                    SubSeq(str, i + 1, i + Len(pat)) = pat }
    IN  IF hits = {} THEN npos ELSE CHOOSE i \in hits : \A j \in hits : i <= j

\* std::string::substr(pos, n) for pos <= size(); n = npos is "to the end".
Substr(str, pos, n) ==
    IF n = npos \/ pos + n > Len(str)
    THEN SubSeq(str, pos + 1, Len(str))
    ELSE SubSeq(str, pos + 1, pos + n)

S_none == << "n", "o", "n", "e" >>
S_audio == << "a", "u", "d", "i", "o" >>
S_video == << "v", "i", "d", "e", "o" >>
S_mp4 == << "m", "p", "4" >>
S_m4a == << "m", "4", "a" >>
S_webm == << "w", "e", "b", "m" >>
S_3gpp == << "3", "g", "p", "p" >>
S_codecs == << "c", "o", "d", "e", "c", "s", "=", "\"" >>

\* VideoFormat{}: the strings start empty.
NewFormat == [ext |-> <<>>, vcodec |-> <<>>, acodec |-> <<>>]

\* What the parser ends in: the format it returns, or the exception thrown.
Returned(fmt) == [threw |-> FALSE, fmt |-> fmt]
Threw(fmt) == [threw |-> TRUE, fmt |-> fmt]

\* The lines of parse_format_metadata that read the codecs attribute;
\* substr(comma + 2) throws std::out_of_range when it starts beyond the end
\* of the codecs string.
ParseCodecs(fmt, mime, type_part) ==
    LET codecs_pos == Find(mime, S_codecs, 0)
    IN  IF codecs_pos # npos
        THEN LET start == codecs_pos + 8
                 end == Find(mime, << "\"" >>, start)
             IN  IF end # npos
                 THEN LET codecs == Substr(mime, start, end - start)
                          comma == Find(codecs, << "," >>, 0)
                      IN  IF comma # npos
                          THEN IF comma + 2 > Len(codecs)
                               THEN Threw([fmt EXCEPT !.vcodec = Substr(codecs, 0, comma)])
                               ELSE Returned([fmt EXCEPT !.vcodec = Substr(codecs, 0, comma),
                                                         !.acodec = Substr(codecs, comma + 2, npos)])
                          ELSE IF Find(type_part, S_audio, 0) = 0
                               THEN Returned([fmt EXCEPT !.vcodec = S_none, !.acodec = codecs])
                               ELSE Returned([fmt EXCEPT !.vcodec = codecs, !.acodec = S_none])
                 ELSE Returned(fmt)
        ELSE Returned([fmt EXCEPT !.vcodec = S_none, !.acodec = S_none])

\* The lines that derive ext from the type before the first ';'.
ParseExt(fmt, type_part) ==
    LET slash == Find(type_part, << "/" >>, 0)
    IN  IF slash # npos
        THEN LET main_type == Substr(type_part, 0, slash)
                 sub_type == Substr(type_part, slash + 1, npos)
             IN  IF main_type = S_audio /\ sub_type = S_mp4
                 THEN [fmt EXCEPT !.ext = S_m4a]
                 ELSE IF main_type = S_audio /\ sub_type = S_webm
                      THEN [fmt EXCEPT !.ext = S_webm]
                      ELSE [fmt EXCEPT !.ext = sub_type]
        ELSE fmt

\* parse_format_metadata, of a format JSON with this mimeType.
ParseMime(mime) ==
    IF mime # <<>>
    THEN LET semi == Find(mime, << ";" >>, 0)
             type_part == Substr(mime, 0, semi)
         IN  ParseCodecs(ParseExt(NewFormat, type_part), mime, type_part)
    ELSE Returned(NewFormat)

S_mp2t == << "m", "p", "2", "t" >>

\* The modelled mimeType values: a type, with or without a subtype, and
\* after it nothing or a codecs attribute in one of the forms the parser
\* tells apart.
TypeParts ==
    { main \o << "/" >> \o sub : main \in { S_audio, S_video },
                                 sub \in { S_mp4, S_webm, S_3gpp, S_mp2t } }
    \cup { S_video }

CodecsAttrs ==
    { <<>>,                                                    \* no attribute
      << ";", " " >> \o S_codecs \o << "x", "\"" >>,                \* one codec
      << ";" >> \o S_codecs \o << "x", "\"" >>,                     \* no blank
      << ";", " " >> \o S_codecs \o << "x", ",", " ", "y", "\"" >>, \* two codecs
      << ";", " " >> \o S_codecs \o << "x", ",", "y", "\"" >>,      \* no blank
      << ";", " " >> \o S_codecs \o << "x", ",", "\"" >>,           \* comma last
      << ";", " " >> \o S_codecs \o << "\"" >>,                     \* empty
      << ";", " " >> \o S_codecs \o << "x" >> }                     \* no end quote

MimeTypes == { <<>> } \cup { t \o a : t \in TypeParts, a \in CodecsAttrs }

InitFormat ==
    /\ EjsIdle
    /\ DnsIdle
    /\ PoolIdle
    /\ JointIdle
    /\ ThreadsIdle
    /\ CliIdle
    /\ SearchIdle
    /\ EngineIdle
    /\ AudioIdle
    /\ SelectIdle
    /\ CoordIdle
    /\ SessionIdle
    /\ SolverIdle
    /\ DownloadIdle
    /\ mime_type \in MimeTypes
    /\ parsed = NewFormat
    /\ fstate = "json"

\* One call of parse_format_metadata.
ParseFormatMetadata ==
    /\ fstate = "json"
    /\ LET r == ParseMime(mime_type)
       IN  /\ fstate' = IF r.threw THEN "threw" ELSE "parsed"
           /\ parsed' = r.fmt
    /\ UNCHANGED mime_type
    /\ UNCHANGED notFormatVars

NextFormat == ParseFormatMetadata

SpecFormat == InitFormat /\ [][NextFormat]_vars

\* C8: every VideoFormat that parse_format_metadata returns has a vcodec or
\* an acodec other than "none", whatever the mimeType, one without a codecs
\* attribute included.
C8_VcodecOrAcodec ==
    fstate = "parsed" => ~(parsed.vcodec = S_none /\ parsed.acodec = S_none)

-----------------------------------------------------------------------------
(* Part IV: AsyncDownloadSession (src/src/net/http_client.cpp). Sizes and    *)
(* offsets are counted in blocks of 128 KiB, so that the read buffer holds   *)
(* 2 blocks and a chunk is 16 blocks.                                        *)

\* The largest resource the modelled server holds.
MaxSize == 33

\* GET requests one download may send.
MaxGets == 3

kChunkSize == 16

kReadBufferSize == 2

MinOf(a, b) == IF a <= b THEN a ELSE b

Success == [kind |-> "ok", code |-> "success"]
Failure(code) == [kind |-> "err", code |-> code]

\* do_write(): the last position of the Range header.
\* (RangeEndUnclamped is a faulty variant that ignores the total size.)
RangeEndUnclamped(offset, total) == offset + kChunkSize - 1

RangeEnd(offset, total) ==
    IF total > 0
    THEN MinOf(offset + kChunkSize - 1, total - 1)
    ELSE kChunkSize - 1

\* do_write(): the GET request; it has a Range header when the total size
\* is known or nothing has been read yet. The request is kept with the
\* total size and the number of bytes written (wr) when it was made.
GetRequest(total, offset, wr) ==
    [range |-> (total > 0 \/ offset = 0),
     start |-> offset,
     end |-> RangeEnd(offset, total),
     total |-> total,
     written |-> wr]

\* post_result(res)
PostResult(res) ==
    /\ dresult' = Append(dresult, res)
    /\ dpc' = "Done"

\* fail(ec, what)
Fail == PostResult(Failure("request_failed"))

\* do_write(): a HEAD request in the head phase, else the GET request.
DoWrite(head, total, offset, wr) ==
    /\ dpc' = "Writing"
    /\ IF head
       THEN UNCHANGED gets
       ELSE /\ Len(gets) < MaxGets
            /\ gets' = Append(gets, GetRequest(total, offset, wr))

\* start_resolve(): a new stream, then resolve, connect and handshake.
StartResolve ==
    /\ stream_' = TRUE
    /\ dpc' = "Connecting"

\* start_next_chunk(reuse)
StartNextChunk(reuse, total, offset, wr) ==
    IF total > 0 /\ offset >= total
    THEN /\ PostResult(Success)
         /\ UNCHANGED <<head_phase_, stream_, gets>>
    ELSE /\ head_phase_' = FALSE
         /\ UNCHANGED dresult
         /\ IF reuse /\ stream_
            THEN DoWrite(FALSE, total, offset, wr) /\ UNCHANGED stream_
            ELSE StartResolve /\ UNCHANGED gets

\* on_chunk_finish()
OnChunkFinish(keep_alive, total, offset, wr) ==
    IF keep_alive /\ (total <= 0 \/ offset < total)
    THEN StartNextChunk(TRUE, total, offset, wr)
    ELSE /\ dpc' = "Shutdown"
         /\ UNCHANGED <<dresult, head_phase_, stream_, gets>>

InitDownload ==
    /\ EjsIdle
    /\ DnsIdle
    /\ PoolIdle
    /\ JointIdle
    /\ ThreadsIdle
    /\ CliIdle
    /\ SearchIdle
    /\ EngineIdle
    /\ AudioIdle
    /\ SelectIdle
    /\ CoordIdle
    /\ SessionIdle
    /\ SolverIdle
    /\ FormatIdle
    /\ dpc = "Start"
    /\ resource \in 0..MaxSize
    /\ total_size_ = -1
    /\ current_offset_ = 0
    /\ head_phase_ = FALSE
    /\ stream_ = FALSE
    /\ outfile_ = [pos |-> 0, data |-> <<>>]
    /\ response = NoResponse
    /\ gets = <<>>
    /\ statuses = <<>>
    /\ written = 0
    /\ progress = [last |-> 0, runs |-> 0]
    /\ dresult = <<>>

\* run(url, output_path)
Run(openOk, urlOk) ==
    /\ dpc = "Start"
    /\ IF ~openOk
       THEN PostResult(Failure("file_open_failed")) /\ UNCHANGED <<head_phase_, stream_>>
       ELSE IF ~urlOk
            THEN PostResult(Failure("invalid_url")) /\ UNCHANGED <<head_phase_, stream_>>
            ELSE /\ head_phase_' = TRUE
                 /\ StartResolve
                 /\ UNCHANGED dresult
    /\ UNCHANGED <<resource, total_size_, current_offset_, outfile_, response,
                   gets, statuses, written, progress>>
    /\ UNCHANGED notDownloadVars

\* on_resolve, on_connect, on_handshake: a failure of any of them fails the
\* download, after the handshake the request is written.
ConnectDone(ok) ==
    /\ dpc = "Connecting"
    /\ IF ok
       THEN DoWrite(head_phase_, total_size_, current_offset_, written) /\ UNCHANGED dresult
       ELSE Fail /\ UNCHANGED gets
    /\ UNCHANGED <<resource, total_size_, current_offset_, head_phase_, stream_,
                   outfile_, response, statuses, written, progress>>
    /\ UNCHANGED notDownloadVars

\* on_write
WriteDone(ok) ==
    /\ dpc = "Writing"
    /\ IF ok
       THEN /\ dpc' = IF head_phase_ THEN "HeadRead" ELSE "ReadHeader"
            /\ UNCHANGED dresult
       ELSE Fail
    /\ UNCHANGED <<resource, total_size_, current_offset_, head_phase_, stream_,
                   outfile_, response, gets, statuses, written, progress>>
    /\ UNCHANGED notDownloadVars

\* on_head_read: a 200 with a Content-Length gives the total size; with
\* keep-alive the connection is reused, else it is shut down first.
OnHeadRead(ec, status, hasLength, keep_alive) ==
    /\ dpc = "HeadRead"
    /\ LET total == IF ~ec /\ status = 200 /\ hasLength THEN resource ELSE total_size_
       IN  /\ total_size_' = total
           /\ IF keep_alive
              THEN StartNextChunk(TRUE, total, current_offset_, written)
              ELSE /\ dpc' = "Shutdown"
                   /\ UNCHANGED <<dresult, head_phase_, stream_, gets>>
    /\ UNCHANGED <<resource, current_offset_, outfile_, response, statuses,
                   written, progress>>
    /\ UNCHANGED notDownloadVars

\* on_shutdown
OnShutdown ==
    /\ dpc = "Shutdown"
    /\ IF head_phase_
       THEN /\ head_phase_' = FALSE
            /\ StartResolve
            /\ UNCHANGED <<dresult, gets>>
       ELSE StartNextChunk(FALSE, total_size_, current_offset_, written)
    /\ UNCHANGED <<resource, total_size_, current_offset_, outfile_, response,
                   statuses, written, progress>>
    /\ UNCHANGED notDownloadVars

\* How the server treats a GET: it honours the Range header, it ignores it
\* and sends the whole resource, or it refuses the request.
ServerModes == { "honour", "ignore", "refuse" }

\* The status of the server's response.
ServerStatus(req, mode) ==
    IF mode = "refuse" THEN 403
    ELSE IF mode = "honour" /\ req.range
         THEN IF req.start < resource THEN 206 ELSE 416
         ELSE 200

\* The first block of the response's body and the number of its blocks.
BodyFrom(req, status) == IF status = 206 THEN req.start ELSE 0

BodyLength(req, status) ==
    IF status = 206 THEN MinOf(req.end, resource - 1) - req.start + 1
    ELSE IF status = 200 THEN resource ELSE 0

\* on_read_header, and read_body() after it: a 200 rewinds the file and the
\* offset, a 206 reads the total from Content-Range, any other status ends
\* the download. hasTotal tells whether the response declares the size
\* (Content-Length of a 200, the total of Content-Range of a 206).
OnReadHeader(ec, mode, hasTotal, keep_alive) ==
    /\ dpc = "ReadHeader"
    /\ IF ec
       THEN /\ Fail
            /\ UNCHANGED <<total_size_, current_offset_, outfile_, response,
                           statuses, head_phase_, stream_, gets>>
       ELSE LET req == gets[Len(gets)]
                status == ServerStatus(req, mode)
                total == IF status = 200
                         THEN IF hasTotal THEN resource ELSE -1
                         ELSE IF hasTotal THEN resource ELSE total_size_
                offset == IF status = 200 THEN 0 ELSE current_offset_
            IN  /\ statuses' = Append(statuses, status)
                /\ IF status \notin { 200, 206 }
                   THEN /\ PostResult(Failure("request_failed"))
                        /\ UNCHANGED <<total_size_, current_offset_, outfile_,
                                       response, head_phase_, stream_, gets>>
                   ELSE /\ total_size_' = total
                        /\ current_offset_' = offset
                        /\ outfile_' = IF status = 200
                                       THEN [outfile_ EXCEPT !.pos = 0]
                                       ELSE outfile_
                        /\ response' = [status |-> status,
                                        from |-> BodyFrom(req, status),
                                        left |-> BodyLength(req, status),
                                        keep_alive |-> keep_alive]
                        /\ IF BodyLength(req, status) = 0
                           THEN OnChunkFinish(keep_alive, total, offset, written)
                           ELSE /\ dpc' = "Body"
                                /\ UNCHANGED <<dresult, head_phase_, stream_, gets>>
    /\ UNCHANGED <<resource, written, progress>>
    /\ UNCHANGED notDownloadVars

\* outfile_.write(buf, n): the bytes replace what is at the write position.
WriteAt(file, blocks) ==
    [pos |-> file.pos + Len(blocks),
     data |-> [i \in 1..(IF Len(file.data) > file.pos + Len(blocks)
                         THEN Len(file.data) ELSE file.pos + Len(blocks)) |->
                 IF i > file.pos /\ i <= file.pos + Len(blocks)
                 THEN blocks[i - file.pos]
                 ELSE file.data[i]]]

\* progress_cb(current_offset_, total): the history keeps the last value
\* and counts the runs of increasing values.
Progressed(p, offset) ==
    [last |-> offset,
     runs |-> IF p.runs = 0 \/ offset <= p.last THEN p.runs + 1 ELSE p.runs]

\* on_read_body, and read_body() after it: n bytes of the body are written
\* and counted; when the body is complete the chunk is finished.
OnReadBody(ec, n) ==
    /\ dpc = "Body"
    /\ IF ec
       THEN /\ Fail
            /\ UNCHANGED <<current_offset_, outfile_, response, written,
                           progress, head_phase_, stream_, gets>>
       ELSE /\ n \in 1..MinOf(kReadBufferSize, response.left)
            /\ outfile_' = WriteAt(outfile_, [i \in 1..n |-> response.from + i - 1])
            /\ current_offset_' = current_offset_ + n
            /\ written' = written + n
            /\ progress' = Progressed(progress, current_offset_ + n)
            /\ response' = [response EXCEPT !.from = @ + n, !.left = @ - n]
            /\ IF response.left = n
               THEN OnChunkFinish(response.keep_alive, total_size_, current_offset_ + n,
                                  written + n)
               ELSE UNCHANGED <<dpc, dresult, head_phase_, stream_, gets>>
    /\ UNCHANGED <<resource, total_size_, statuses>>
    /\ UNCHANGED notDownloadVars

NextDownload ==
    \/ \E openOk, urlOk \in BOOLEAN : Run(openOk, urlOk)
    \/ \E ok \in BOOLEAN : ConnectDone(ok)
    \/ \E ok \in BOOLEAN : WriteDone(ok)
    \/ \E ec, hasLength, keep_alive \in BOOLEAN, status \in { 200, 404 } :
          OnHeadRead(ec, status, hasLength, keep_alive)
    \/ OnShutdown
    \/ \E ec, hasTotal, keep_alive \in BOOLEAN, mode \in ServerModes :
          OnReadHeader(ec, mode, hasTotal, keep_alive)
    \/ \E ec \in BOOLEAN, n \in 1..kReadBufferSize : OnReadBody(ec, n)

SpecDownload == InitDownload /\ [][NextDownload]_vars

\* The resource's blocks, as a complete file holds them.
WholeResource == [i \in 1..resource |-> i - 1]

\* The responses to the first k GET requests were all 206.
AllPartial(k) == \A j \in 1..k : statuses[j] = 206

\* C9: a GET request that is made while the total size is known, all
\* earlier requests having been answered with 206, carries Range
\* bytes=offset-min(offset+C-1, total-1), starts at the byte after the last
\* byte written, and starts beyond the request before it; a download that
\* succeeds with all its requests answered 206 has written total bytes, the
\* resource from its first to its last byte.
C9_RangesCoverResource ==
    /\ \A i \in 1..Len(gets) :
          (gets[i].total > 0 /\ AllPartial(i - 1)) =>
             /\ gets[i].range
             /\ gets[i].start = gets[i].written
             /\ gets[i].end = MinOf(gets[i].start + kChunkSize - 1, gets[i].total - 1)
             /\ i > 1 => gets[i].start > gets[i - 1].start
    /\ (dresult = << Success >> /\ AllPartial(Len(statuses))) =>
          /\ written = total_size_
          /\ written = resource
          /\ outfile_.data = WholeResource

\* C9 witness: a download of a resource of more than two chunks, its size
\* known from the HEAD response, that succeeded with three requests, each
\* answered 206.
C9_Witness ==
    /\ dresult = << Success >>
    /\ Len(gets) = 3
    /\ gets[1].total > 0
    /\ AllPartial(Len(statuses))
    /\ resource > 2 * kChunkSize

\* C10: when the first Range request is answered with 200, with or without
\* a Content-Length, the body is written once from position 0, no other
\* request is sent, progress_cb sees one run of increasing counts, and a
\* download that completes successfully leaves the whole resource in the
\* file.
C10_FullBodyOnce ==
    (Len(statuses) >= 1 /\ statuses[1] = 200) =>
        /\ Len(gets) = 1
        /\ progress.runs <= 1
        /\ dresult = << Success >> => (outfile_.data = WholeResource /\ written = resource)

\* The GET requests that were sent with a Range header after the first one
\* and answered 200, and the requests answered 416.
EndingResponses ==
    { i \in 1..Len(statuses) :
        \/ statuses[i] = 416
        \/ statuses[i] = 200 /\ i > 1 /\ gets[i].range }

\* C11: a 200 response to a Range request that is not the first one, or a
\* 416 response, ends the download: successfully when the offset the request
\* started at equals the total size, with http_error otherwise.
C11_LateFullOrUnsatisfiable ==
    \A i \in EndingResponses :
        dresult = << IF gets[i].start = gets[i].total
                     THEN Success
                     ELSE Failure("http_error") >>

\* The last response had a status other than 200 and 206.
UnexpectedStatus ==
    Len(statuses) > 0 /\ statuses[Len(statuses)] \notin { 200, 206 }

\* C12: a download fails with file_open_failed when the output file cannot
\* be opened (nothing is requested then), with http_error when a response has
\* an unexpected status, and with request_failed only on a transport failure.
C12_ErrorKinds ==
    /\ dresult = << Failure("file_open_failed") >> => (gets = <<>> /\ ~stream_)
    /\ UnexpectedStatus => dresult = << Failure("http_error") >>
    /\ dresult = << Failure("request_failed") >> => ~UnexpectedStatus

\* C13: while the HEAD probe is under way nothing fails the download, whatever
\* step of the probe fails; a probe that gave no usable Content-Length is
\* followed by the first ranged GET, made with the total unknown.
C13_HeadFailureFallsBack ==
    /\ head_phase_ => dresult = <<>>
    /\ (Len(gets) >= 1 /\ gets[1].total <= 0) =>
          (gets[1].range /\ gets[1].start = 0 /\ gets[1].end = kChunkSize - 1)

\* The scheduling of the download session: a pending completion of the
\* session's I/O is eventually delivered.
SpecDownloadLive == InitDownload /\ [][NextDownload]_vars /\ WF_vars(NextDownload)

\* Two GET requests were made from the same offset with the same knowledge of
\* the total size: the session is back in a state it was in before.
RepeatedRequest ==
    \E i, j \in 1..Len(gets) :
        /\ i < j
        /\ gets[i].start = gets[j].start
        /\ gets[i].total = gets[j].total
        /\ gets[i].range = gets[j].range

\* C14: every download eventually invokes its completion handler, and does
\* so exactly once, as long as the server keeps answering (within the bound on
\* requests); it never requests the same bytes again from the same state.
C14_CompletesExactlyOnce ==
    /\ [](Len(dresult) <= 1)
    /\ [](~RepeatedRequest)
    /\ <>(Len(dresult) = 1 \/ Len(gets) = MaxGets)

-----------------------------------------------------------------------------
(* Part V: Downloader::Impl::select_streams                                  *)
(* (src/src/downloader/downloader.cpp). A format is the record of the        *)
(* VideoFormat fields the selector and the coordinator read; codecs are      *)
(* sequences of characters, bitrates are whole numbers, and a pointer to a   *)
(* format is its index in the list, 0 for null.                              *)

\* The longest formats list.
MaxFormats == 2

S_av01 == << "a", "v", "0", "1" >>
S_vp9 == << "v", "p", "9" >>
S_vp09 == << "v", "p", "0", "9" >>
S_avc1 == << "a", "v", "c", "1" >>
S_h264 == << "h", "2", "6", "4" >>
S_vp8 == << "v", "p", "8" >>
S_opus == << "o", "p", "u", "s" >>
S_vorbis == << "v", "o", "r", "b", "i", "s" >>
S_mp4a == << "m", "p", "4", "a" >>
S_aac == << "a", "a", "c" >>

\* codec.find(pat) != npos
Contains(codec, pat) == Find(codec, pat, 0) # npos

get_vcodec_score(codec) ==
    IF Contains(codec, S_av01) THEN 4
    ELSE IF Contains(codec, S_vp9) \/ Contains(codec, S_vp09) THEN 3
    ELSE IF Contains(codec, S_avc1) \/ Contains(codec, S_h264) THEN 2
    ELSE IF Contains(codec, S_vp8) THEN 1
    ELSE 0

get_acodec_score(codec) ==
    IF Contains(codec, S_opus) THEN 4
    ELSE IF Contains(codec, S_vorbis) THEN 3
    ELSE IF Contains(codec, S_mp4a) \/ Contains(codec, S_aac) THEN 2
    ELSE 0

\* compare_audio(current, candidate): the candidate replaces the current one.
compare_audio(fs, current, candidate) ==
    IF current = 0 THEN TRUE
    ELSE LET cur == fs[current]
             cand == fs[candidate]
         IN  IF cand.language_preference # cur.language_preference
             THEN cand.language_preference > cur.language_preference
             ELSE IF cand.audio_channels # cur.audio_channels
             THEN cand.audio_channels > cur.audio_channels
             ELSE IF get_acodec_score(cand.acodec) # get_acodec_score(cur.acodec)
             THEN get_acodec_score(cand.acodec) > get_acodec_score(cur.acodec)
             ELSE cand.tbr > cur.tbr

\* is_better of the video loop: the candidate replaces best_video.
\* (is_better_by_tbr is a faulty variant that looks at the bitrate only.)
is_better_by_tbr(fs, best_video, candidate) ==
    fs[candidate].tbr > fs[best_video].tbr

is_better(fs, best_video, candidate) ==
    LET f == fs[candidate]
        b == fs[best_video]
        res_new == f.width * f.height
        res_best == b.width * b.height
    IN  IF res_new # res_best THEN res_new > res_best
        ELSE IF f.fps # b.fps THEN f.fps > b.fps
        ELSE IF get_vcodec_score(f.vcodec) # get_vcodec_score(b.vcodec)
        THEN get_vcodec_score(f.vcodec) > get_vcodec_score(b.vcodec)
        ELSE f.tbr > b.tbr

\* is_preferred
\* (IsPreferredAny is a faulty variant that takes every language as a match.)
IsPreferredAny(f, lang) == lang # <<>>

IsPreferred(f, lang) == lang # <<>> /\ f.language = lang[1]

\* One pass of the loop of the "bestaudio" branch, from format i on.
RECURSIVE BestAudioLoop(_, _, _, _, _)
BestAudioLoop(fs, lang, i, best, preferred) ==
    IF i > Len(fs) THEN [best |-> best, preferred |-> preferred]
    ELSE IF fs[i].vcodec = S_none /\ fs[i].acodec # S_none
         THEN BestAudioLoop(fs, lang, i + 1,
                  IF compare_audio(fs, best, i) THEN i ELSE best,
                  IF IsPreferred(fs[i], lang) /\ compare_audio(fs, preferred, i)
                  THEN i ELSE preferred)
         ELSE BestAudioLoop(fs, lang, i + 1, best, preferred)

\* The loop of the general branch, from format i on.
RECURSIVE BestLoop(_, _, _, _, _, _)
BestLoop(fs, lang, i, best_video, best_audio, best_audio_preferred_) ==
    IF i > Len(fs)
    THEN [best_video |-> best_video, best_audio |-> best_audio,
          best_audio_preferred_ |-> best_audio_preferred_]
    ELSE LET f == fs[i]
             audio_only == f.acodec # S_none /\ f.vcodec = S_none
         IN  BestLoop(fs, lang, i + 1,
                 IF f.vcodec # S_none
                 THEN IF best_video = 0 THEN i
                      ELSE IF is_better(fs, best_video, i) THEN i ELSE best_video
                 ELSE best_video,
                 IF audio_only /\ compare_audio(fs, best_audio, i)
                 THEN i ELSE best_audio,
                 IF audio_only /\ IsPreferred(f, lang)
                    /\ (best_audio_preferred_ = 0
                        \/ compare_audio(fs, best_audio_preferred_, i))
                 THEN i ELSE best_audio_preferred_)

\* select_streams(info, selector, preferred_lang)
select_streams(fs, sel, lang) ==
    IF sel = "bestaudio"
    THEN LET r == BestAudioLoop(fs, lang, 1, 0, 0)
         IN  [video |-> 0,
              audio |-> IF r.preferred # 0 THEN r.preferred ELSE r.best]
    ELSE LET r == BestLoop(fs, lang, 1, 0, 0, 0)
         IN  [video |-> r.best_video,
              audio |-> IF r.best_audio_preferred_ # 0
                        THEN r.best_audio_preferred_ ELSE r.best_audio]

\* VideoFormat{} with the fields a video-only format carries.
VideoOnly(width, height, fps, vcodec, tbr) ==
    [itag |-> 137,
     vcodec |-> vcodec, acodec |-> S_none, width |-> width, height |-> height,
     fps |-> fps, tbr |-> tbr, audio_channels |-> 0, language |-> "",
     language_preference |-> -1, ext |-> "mp4"]

\* VideoFormat{} with the fields an audio-only format carries.
AudioOnly(language, language_preference, audio_channels, acodec, tbr) ==
    [itag |-> 140,
     vcodec |-> S_none, acodec |-> acodec, width |-> 0, height |-> 0,
     fps |-> 0, tbr |-> tbr, audio_channels |-> audio_channels,
     language |-> language, language_preference |-> language_preference,
     ext |-> "m4a"]

\* A format with both tracks, and the format parse_format_metadata leaves
\* when the mimeType has no codecs attribute (both codecs "none").
Muxed ==
    [VideoOnly(1, 1, 30, S_avc1, 1) EXCEPT !.itag = 18, !.acodec = S_mp4a,
                                           !.audio_channels = 2]

NoCodecs == [VideoOnly(1, 1, 30, S_none, 1) EXCEPT !.itag = 17, !.acodec = S_none]

\* The formats the lists are made of.
SelectFormats ==
    { VideoOnly(w, 1, fps, vc, tbr) :
        w \in { 1, 2 }, fps \in { 30, 60 }, vc \in { S_avc1, S_vp9 }, tbr \in { 1, 2 } }
    \cup { AudioOnly(l, lp, ch, ac, tbr) :
        l \in { "en", "fr" }, lp \in { -1, 10 }, ch \in { 2, 6 },
        ac \in { S_mp4a, S_opus }, tbr \in { 1, 2 } }
    \cup { Muxed, NoCodecs }

\* The selector strings: the two best forms, bestvideo, one itag and a pair
\* of itags.
Selectors == { "best", "bestaudio", "bestvideo", "140", "137+140" }

PreferredLangs == { <<>>, << "en" >> }

InitSelect ==
    /\ EjsIdle
    /\ DnsIdle
    /\ PoolIdle
    /\ JointIdle
    /\ ThreadsIdle
    /\ CliIdle
    /\ SearchIdle
    /\ EngineIdle
    /\ AudioIdle
    /\ SessionIdle
    /\ SolverIdle
    /\ FormatIdle
    /\ DownloadIdle
    /\ CoordIdle
    /\ formats \in SeqsUpTo(SelectFormats, MaxFormats)
    /\ selector \in Selectors
    /\ preferred_lang \in PreferredLangs
    /\ result = NoStreams
    /\ sstate = "call"

\* One call of select_streams.
SelectStreams ==
    /\ sstate = "call"
    /\ result' = select_streams(formats, selector, preferred_lang)
    /\ sstate' = "returned"
    /\ UNCHANGED <<formats, selector, preferred_lang>>
    /\ UNCHANGED notSelectVars

NextSelect == SelectStreams

SpecSelect == InitSelect /\ [][NextSelect]_vars

\* The formats with a video track, and the formats with an audio track only.
VideoBearing == { i \in 1..Len(formats) : formats[i].vcodec # S_none }

AudioOnlyFormats ==
    { i \in 1..Len(formats) :
        formats[i].vcodec = S_none /\ formats[i].acodec # S_none }

\* The ranking tuples, and the lexicographic order on them.
VideoRank(f) == << f.width * f.height, f.fps, get_vcodec_score(f.vcodec), f.tbr >>

AudioRank(f) ==
    << f.language_preference, f.audio_channels, get_acodec_score(f.acodec), f.tbr >>

LexGreater(a, b) ==
    \E k \in 1..4 : a[k] > b[k] /\ \A j \in 1..(k - 1) : a[j] = b[j]

\* slot is a format of the set that no format of the set outranks, null when
\* the set is empty.
MaximalVideo(slot, set) ==
    IF set = {} THEN slot = 0
    ELSE /\ slot \in set
         /\ \A j \in set : ~LexGreater(VideoRank(formats[j]), VideoRank(formats[slot]))

MaximalAudio(slot, set) ==
    IF set = {} THEN slot = 0
    ELSE /\ slot \in set
         /\ \A j \in set : ~LexGreater(AudioRank(formats[j]), AudioRank(formats[slot]))

\* The audio-only formats whose language is the preferred one.
LanguageMatches ==
    { i \in AudioOnlyFormats :
        preferred_lang # <<>> /\ formats[i].language = preferred_lang[1] }

\* C18: for selector best the video slot is a video-bearing format that no
\* video-bearing format outranks under (width*height, fps, codec tier, tbr),
\* and, no language being preferred, the audio slot is an audio-only format
\* that none outranks under (language_preference, audio_channels, codec tier,
\* tbr), wherever the formats stand in the list.
C18_BestIsMaximal ==
    (sstate = "returned" /\ selector = "best") =>
        /\ MaximalVideo(result.video, VideoBearing)
        /\ LanguageMatches = {} => MaximalAudio(result.audio, AudioOnlyFormats)

\* C18 witness: of two video formats the first has the smaller resolution
\* but the higher frame rate and bitrate; the second is selected.
C18_Witness ==
    /\ sstate = "returned"
    /\ selector = "best"
    /\ Len(formats) = 2
    /\ VideoBearing = { 1, 2 }
    /\ formats[1].width * formats[1].height < formats[2].width * formats[2].height
    /\ formats[1].fps > formats[2].fps
    /\ formats[1].tbr > formats[2].tbr
    /\ result.video = 2

\* C19: with a preferred language that an audio-only format has, the audio
\* slot is a format of that language which no other format of that language
\* outranks; with a preferred language no audio-only format has, it is a
\* format no audio-only format outranks.
C19_PreferredLanguageWins ==
    (sstate = "returned" /\ preferred_lang # <<>>) =>
        IF LanguageMatches # {}
        THEN MaximalAudio(result.audio, LanguageMatches)
        ELSE MaximalAudio(result.audio, AudioOnlyFormats)

\* C19 witness: the format of another language outranks the one of the
\* preferred language, which is selected all the same.
C19_Witness ==
    /\ sstate = "returned"
    /\ Len(formats) = 2
    /\ LanguageMatches = { 2 }
    /\ AudioOnlyFormats = { 1, 2 }
    /\ LexGreater(AudioRank(formats[1]), AudioRank(formats[2]))
    /\ result.audio = 2

\* C20: for a non-empty formats list and selector best, the video slot or
\* the audio slot of the result is not null.
C20_BestIsTotal ==
    (sstate = "returned" /\ selector = "best" /\ formats # <<>>) =>
        (result.video # 0 \/ result.audio # 0)

-----------------------------------------------------------------------------
(* Part VI: AsyncDownloaderSession (src/src/downloader/downloader.cpp), the  *)
(* coordinator of the downloads of one video. A path is the pair of the      *)
(* file's stem and its extension; the empty string is <<>>.                  *)

Tracks == { "video", "audio" }

\* base_filename_ + "." + ext and base_filename_ + "_audio." + ext
VideoPath(ext) == << "base", ext >>

AudioPath(ext) == << "base_audio", ext >>

\* outcome::success(path) and outcome::failure(code)
PathResult(path) == [kind |-> "ok", code |-> "success", path |-> path]

ErrorResult(code) == [kind |-> "err", code |-> code, path |-> <<>>]

\* The formats of the videos the coordinator is started with.
CoordFormats ==
    { [VideoOnly(1, 1, 30, S_avc1, 1) EXCEPT !.ext = e] : e \in { "mp4", "webm" } }
    \cup { [AudioOnly("en", -1, 2, S_mp4a, 1) EXCEPT !.ext = e] : e \in { "m4a", "webm" } }
    \cup { NoCodecs }

MergeFormats == { <<>>, << "mp4" >>, << "mkv" >> }

\* on_download_complete, given the counter after the decrement: wait for the
\* other download, complete with request_failed, or finalize.
\* (EarlyOut is a faulty variant that gives up at the first failure.)
EarlyOut(active, error) ==
    IF error THEN "fail" ELSE IF active = 0 THEN "finalize" ELSE "wait"

JointOutcome(active, error) ==
    IF active = 0 THEN IF error THEN "fail" ELSE "finalize" ELSE "wait"

InitCoord ==
    /\ EjsIdle
    /\ DnsIdle
    /\ PoolIdle
    /\ JointIdle
    /\ ThreadsIdle
    /\ CliIdle
    /\ SearchIdle
    /\ EngineIdle
    /\ AudioIdle
    /\ SessionIdle
    /\ SolverIdle
    /\ FormatIdle
    /\ DownloadIdle
    /\ SelectIdle
    /\ cpc = "Start"
    /\ info_ = <<>>
    /\ merge_fmt_ = <<>>
    /\ streams_ = NoStreams
    /\ video_path_ = <<>>
    /\ audio_path_ = <<>>
    /\ active_downloads_ = 0
    /\ error_occurred_ = FALSE
    /\ transfers = [t \in Tracks |-> "none"]
    /\ files = {}
    /\ muxer = <<>>
    /\ cresult = <<>>

\* complete(res)
CoordComplete(res) == cresult' = Append(cresult, res)

\* start(info, selector, merge_fmt), with download_video() and
\* download_audio(): each download opens its output file at once (vopen,
\* aopen tell whether it can) and a download whose file did not open has
\* already failed, its completion being dispatched.
CoordStart(fs, sel, merge, vopen, aopen) ==
    /\ cpc = "Start"
    /\ cpc' = "Started"
    /\ info_' = fs
    /\ merge_fmt_' = merge
    /\ LET s == select_streams(fs, sel, <<>>)
           vpath == VideoPath(fs[s.video].ext)
           apath == AudioPath(fs[s.audio].ext)
       IN  /\ streams_' = s
           /\ IF s.video = 0 /\ s.audio = 0
              THEN /\ CoordComplete(ErrorResult("video_not_found"))
                   /\ UNCHANGED <<video_path_, audio_path_, active_downloads_,
                                  transfers, files>>
              ELSE /\ UNCHANGED cresult
                   /\ active_downloads_' = (IF s.video # 0 THEN 1 ELSE 0)
                                           + (IF s.audio # 0 THEN 1 ELSE 0)
                   /\ video_path_' = IF s.video # 0 THEN vpath ELSE video_path_
                   /\ audio_path_' = IF s.audio # 0 THEN apath ELSE audio_path_
                   /\ transfers' =
                        [video |-> IF s.video = 0 THEN "none"
                                   ELSE IF vopen THEN "running" ELSE "refused",
                         audio |-> IF s.audio = 0 THEN "none"
                                   ELSE IF aopen THEN "running" ELSE "refused"]
                   /\ files' = files
                        \cup (IF s.video # 0 /\ vopen THEN { vpath } ELSE {})
                        \cup (IF s.audio # 0 /\ aopen THEN { apath } ELSE {})
    /\ UNCHANGED <<error_occurred_, muxer>>
    /\ UNCHANGED notCoordVars

\* finalize(): with both streams and a merge format the muxer is called
\* (mergeOk is its answer; a failed merge may have created the output file,
\* partial); its inputs are removed after a successful merge.
Finalize(mergeOk, partial) ==
    IF streams_.video # 0 /\ streams_.audio # 0 /\ merge_fmt_ # <<>>
    THEN LET output_filename == << "base", merge_fmt_[1] >>
             merged == files \cup { output_filename }
         IN  /\ muxer' = Append(muxer, [video |-> video_path_, audio |-> audio_path_,
                                        output |-> output_filename, ok |-> mergeOk])
             /\ IF mergeOk
                THEN /\ files' = (merged \ { video_path_ }) \ { audio_path_ }
                     /\ CoordComplete(PathResult(output_filename))
                ELSE /\ files' = IF partial THEN merged ELSE files
                     /\ CoordComplete(ErrorResult("muxer_error"))
    ELSE /\ CoordComplete(PathResult(video_path_))
         /\ UNCHANGED <<files, muxer>>

\* The completion handler of a download, and on_download_complete() after it.
DownloadComplete(track, ok, mergeOk, partial) ==
    /\ cpc = "Started"
    /\ transfers[track] \in { "running", "refused" }
    /\ ok => transfers[track] = "running"
    /\ transfers' = [transfers EXCEPT ![track] = IF ok THEN "ok" ELSE "failed"]
    /\ error_occurred_' = (error_occurred_ \/ ~ok)
    /\ active_downloads_' = active_downloads_ - 1
    /\ LET outcome == JointOutcome(active_downloads_ - 1, error_occurred_ \/ ~ok)
       IN  IF outcome = "fail"
           THEN /\ CoordComplete(ErrorResult("request_failed"))
                /\ UNCHANGED <<files, muxer>>
           ELSE IF outcome = "finalize"
                THEN Finalize(mergeOk, partial)
                ELSE UNCHANGED <<cresult, files, muxer>>
    /\ UNCHANGED <<cpc, info_, merge_fmt_, streams_, video_path_, audio_path_>>
    /\ UNCHANGED notCoordVars

NextCoord ==
    \/ \E fs \in SeqsUpTo(CoordFormats, MaxFormats), sel \in Selectors,
          merge \in MergeFormats, vopen, aopen \in BOOLEAN :
          CoordStart(fs, sel, merge, vopen, aopen)
    \/ \E track \in Tracks, ok, mergeOk, partial \in BOOLEAN :
          DownloadComplete(track, ok, mergeOk, partial)

SpecCoord == InitCoord /\ [][NextCoord]_vars

\* Both streams were selected; a download has not completed yet.
BothSelected == streams_.video # 0 /\ streams_.audio # 0

Pending(track) == transfers[track] \in { "running", "refused" }

\* C15: the muxer is called only when both downloads have completed without
\* a failure; with both streams selected and a download failed, the muxer is
\* never called, nothing is delivered while the other download is under way,
\* and request_failed is delivered once both have completed.
C15_MuxOnlyAfterBothSucceed ==
    /\ muxer # <<>> => \A t \in Tracks : transfers[t] = "ok"
    /\ (BothSelected /\ \E t \in Tracks : transfers[t] = "failed") =>
          /\ muxer = <<>>
          /\ IF \E t \in Tracks : Pending(t)
             THEN cresult = <<>>
             ELSE cresult = << ErrorResult("request_failed") >>

\* C15 witness: of two downloads the video failed and the audio succeeded;
\* request_failed was delivered without a call of the muxer.
C15_Witness ==
    /\ BothSelected
    /\ transfers = [video |-> "failed", audio |-> "ok"]
    /\ muxer = <<>>
    /\ cresult = << ErrorResult("request_failed") >>

\* C16: after a successful merge the result is the path <base>.<merge_format>,
\* the file at that path exists and the two temp files are gone, whatever
\* the extensions; after a failed merge the result is muxer_error and both
\* temp files are still there.
C16_MergeResult ==
    \A k \in 1..Len(muxer) :
        IF muxer[k].ok
        THEN /\ cresult = << PathResult(<< "base", merge_fmt_[1] >>) >>
             /\ << "base", merge_fmt_[1] >> \in files
             /\ audio_path_ \notin files
             /\ video_path_ # << "base", merge_fmt_[1] >> => video_path_ \notin files
        ELSE /\ cresult = << ErrorResult("muxer_error") >>
             /\ video_path_ \in files
             /\ audio_path_ \in files

\* C17: when one stream only is selected and its download succeeds, the
\* result is the path that stream was written to, and the file is there.
C17_SingleStreamPath ==
    /\ (streams_.video # 0 /\ streams_.audio = 0 /\ transfers.video = "ok") =>
          (cresult = << PathResult(video_path_) >> /\ video_path_ \in files)
    /\ (streams_.audio # 0 /\ streams_.video = 0 /\ transfers.audio = "ok") =>
          (cresult = << PathResult(audio_path_) >> /\ audio_path_ \in files)

\* The itags an itag selector names for the video and the audio slot; a
\* single itag names the format for whichever slot its tracks fill.
NamedItags ==
    [sel \in { "140", "137+140" } |->
        IF sel = "140" THEN [video |-> 140, audio |-> 140]
        ELSE [video |-> 137, audio |-> 140]]

\* The slot is null or holds a format of the itag.
SlotHasItag(slot, itag) == slot = 0 \/ formats[slot].itag = itag

\* C21: bestvideo fills the video slot only and bestaudio the audio slot only;
\* an itag selector puts nothing but the formats of the named itags in the
\* slots, and selects a named format that is in the list.
C21_SelectorGrammar ==
    sstate = "returned" =>
        /\ selector = "bestvideo" => result.audio = 0
        /\ selector = "bestaudio" => result.video = 0
        /\ selector \in DOMAIN NamedItags =>
              /\ SlotHasItag(result.video, NamedItags[selector].video)
              /\ SlotHasItag(result.audio, NamedItags[selector].audio)
              /\ (\E i \in 1..Len(formats) : formats[i].itag = 140) =>
                    (result.video # 0 \/ result.audio # 0)

-----------------------------------------------------------------------------
(* Part VII: AudioStream and the decoder thread that feeds it                *)
(* (src/src/media/audio_streamer.cpp). A chunk is a sequence of bytes, the   *)
(* bytes being numbered in the order the decoder produces them. The methods  *)
(* of AudioStream::Impl run under its mutex, so each is one step.            *)

\* Frames the decoder's input holds at most.
MaxFrames == 3

\* Reads the consumer starts at most.
MaxReads == 3

\* The sizes of a decoded chunk and of a read buffer, in bytes.
ChunkSizes == { 1, 2 }

BufferSizes == { 1, 2 }

RECURSIVE Flatten(_)
Flatten(chunks) ==
    IF chunks = <<>> THEN <<>> ELSE Head(chunks) \o Flatten(Tail(chunks))

\* The copy out of the front chunk: min(size, front.size()) bytes are taken,
\* the chunk is popped when it is used up and keeps its remainder when not.
\* (TakeFrontAndPop is a faulty variant that always pops the chunk.)
TakeFrontAndPop(queue, size) ==
    [bytes |-> SubSeq(Head(queue), 1, MinOf(size, Len(Head(queue)))),
     queue |-> Tail(queue)]

TakeFront(queue, size) ==
    LET front == Head(queue)
        to_copy == MinOf(size, Len(front))
    IN  [bytes |-> SubSeq(front, 1, to_copy),
         queue |-> IF to_copy >= Len(front)
                   THEN Tail(queue)
                   ELSE << SubSeq(front, to_copy + 1, Len(front)) >> \o Tail(queue)]

\* The branch a read takes: it is stored as pending, or it completes at once
\* with a cancellation error, with end of stream, or with data.
\* (ReadOutcomeDataFirst is a faulty variant that looks at the queue first.)
ReadOutcomeDataFirst(queue, at_eof, was_cancelled) ==
    IF queue # <<>> THEN "data"
    ELSE IF was_cancelled THEN "aborted"
    ELSE IF at_eof THEN "eof" ELSE "pend"

ReadOutcome(queue, at_eof, was_cancelled) ==
    IF ~(queue # <<>> \/ at_eof \/ was_cancelled) THEN "pend"
    ELSE IF was_cancelled THEN "aborted"
    ELSE IF queue = <<>> THEN "eof" ELSE "data"

\* The completion of a read as its handler sees it, with the state of the
\* stream when it was made.
Completion(kind, bytes, by, queue_after) ==
    [kind |-> kind, bytes |-> bytes, by |-> by, eof |-> eof,
     cancelled |-> stream_cancelled, drained |-> (queue_after = <<>>)]

\* cancel() and set_eof(): both pending reads are moved out and each one's
\* handler is dispatched with the same outcome.
\* (CompleteNone is a faulty variant that drops the handlers.)
CompleteNone(log, pr, par, c) == log

CompletePending(log, pr, par, c) ==
    log \o (IF pr # <<>> THEN << c >> ELSE <<>>) \o (IF par THEN << c >> ELSE <<>>)

InitAudio ==
    /\ EjsIdle
    /\ DnsIdle
    /\ PoolIdle
    /\ JointIdle
    /\ ThreadsIdle
    /\ CliIdle
    /\ SearchIdle
    /\ EngineIdle
    /\ SessionIdle
    /\ SolverIdle
    /\ FormatIdle
    /\ DownloadIdle
    /\ SelectIdle
    /\ CoordIdle
    /\ buffer_queue = <<>>
    /\ eof = FALSE
    /\ stream_cancelled = FALSE
    /\ cancel_token = FALSE
    /\ pending_read = <<>>
    /\ pending_alloc_read = FALSE
    /\ alive = TRUE
    /\ ppc = "decoding"
    /\ pushed = <<>>
    /\ read_log = <<>>
    /\ reads = 0
    /\ eof_sets = 0
    /\ frames_after_cancel = 0

\* AudioStream::Impl::cancel()
ImplCancel ==
    /\ stream_cancelled' = TRUE
    /\ pending_read' = <<>>
    /\ pending_alloc_read' = FALSE
    /\ read_log' = CompletePending(read_log, pending_read, pending_alloc_read,
                                   Completion("aborted", <<>>, "cancel", buffer_queue))

\* AudioStream::Impl::push_data(data)
PushData(data) ==
    IF stream_cancelled
    THEN UNCHANGED <<buffer_queue, pending_read, pending_alloc_read, read_log>>
    ELSE LET queue == Append(buffer_queue, data)
         IN  /\ pending_read' = <<>>
             /\ pending_alloc_read' = FALSE
             /\ IF pending_read # <<>>
                THEN LET t == TakeFront(queue, pending_read[1])
                     IN  /\ buffer_queue' = t.queue
                         /\ read_log' = Append(read_log,
                                Completion("data", t.bytes, "push", t.queue))
                ELSE IF pending_alloc_read
                     THEN /\ buffer_queue' = Tail(queue)
                          /\ read_log' = Append(read_log,
                                 Completion("data", Head(queue), "push", Tail(queue)))
                     ELSE /\ buffer_queue' = queue
                          /\ UNCHANGED read_log

\* AudioStream::Impl::set_eof()
SetEof ==
    /\ eof' = TRUE
    /\ eof_sets' = eof_sets + 1
    /\ pending_read' = <<>>
    /\ pending_alloc_read' = FALSE
    /\ read_log' = CompletePending(read_log, pending_read, pending_alloc_read,
                                   Completion("eof", <<>>, "set_eof", buffer_queue))

\* One turn of the decode loop of stream_producer, and what follows the loop:
\* the loop ends when the cancel token is set, when the stream is gone or when
\* the input is at its end (or could not be opened); otherwise the frame is
\* decoded and pushed. mark_eof() calls set_eof() on a stream that is alive.
ProducerStep(input_end, size) ==
    /\ ppc = "decoding"
    /\ IF cancel_token \/ ~alive \/ input_end
       THEN /\ ppc' = "exited"
            /\ IF alive
               THEN SetEof
               ELSE UNCHANGED <<eof, eof_sets, pending_read, pending_alloc_read,
                                read_log>>
            /\ UNCHANGED <<buffer_queue, pushed, frames_after_cancel>>
       ELSE /\ Len(pushed) < MaxFrames
            /\ LET first == Len(Flatten(pushed))
                   data == [i \in 1..size |-> first + i]
               IN  /\ pushed' = Append(pushed, data)
                   /\ PushData(data)
            /\ frames_after_cancel' =
                 IF stream_cancelled THEN frames_after_cancel + 1
                 ELSE frames_after_cancel
            /\ UNCHANGED <<ppc, eof, eof_sets>>
    /\ UNCHANGED <<stream_cancelled, cancel_token, alive, reads>>
    /\ UNCHANGED notAudioVars

\* async_read_impl(buffer, ...), for a caller that has no read pending.
Read(size) ==
    /\ alive
    /\ pending_read = <<>> /\ ~pending_alloc_read
    /\ reads < MaxReads
    /\ reads' = reads + 1
    /\ LET outcome == ReadOutcome(buffer_queue, eof, stream_cancelled)
       IN  IF outcome = "pend"
           THEN /\ pending_read' = << size >>
                /\ UNCHANGED <<buffer_queue, read_log>>
           ELSE IF outcome = "data"
           THEN LET t == TakeFront(buffer_queue, size)
                IN  /\ buffer_queue' = t.queue
                    /\ read_log' = Append(read_log,
                           Completion("data", t.bytes, "read", t.queue))
                    /\ UNCHANGED pending_read
           ELSE /\ read_log' = Append(read_log,
                       Completion(outcome, <<>>, "read", buffer_queue))
                /\ UNCHANGED <<buffer_queue, pending_read>>
    /\ UNCHANGED <<eof, stream_cancelled, cancel_token, pending_alloc_read, alive,
                   ppc, pushed, eof_sets, frames_after_cancel>>
    /\ UNCHANGED notAudioVars

\* async_read_alloc_impl(...), for a caller that has no read pending.
ReadAlloc ==
    /\ alive
    /\ pending_read = <<>> /\ ~pending_alloc_read
    /\ reads < MaxReads
    /\ reads' = reads + 1
    /\ LET outcome == ReadOutcome(buffer_queue, eof, stream_cancelled)
       IN  IF outcome = "pend"
           THEN /\ pending_alloc_read' = TRUE
                /\ UNCHANGED <<buffer_queue, read_log>>
           ELSE IF outcome = "data"
           THEN /\ buffer_queue' = Tail(buffer_queue)
                /\ read_log' = Append(read_log,
                       Completion("data", Head(buffer_queue), "read", Tail(buffer_queue)))
                /\ UNCHANGED pending_alloc_read
           ELSE /\ read_log' = Append(read_log,
                       Completion(outcome, <<>>, "read", buffer_queue))
                /\ UNCHANGED <<buffer_queue, pending_alloc_read>>
    /\ UNCHANGED <<eof, stream_cancelled, cancel_token, pending_read, alive,
                   ppc, pushed, eof_sets, frames_after_cancel>>
    /\ UNCHANGED notAudioVars

\* AudioStream::cancel(), and the cancellation slot of a read
StreamCancel ==
    /\ alive
    /\ ImplCancel
    /\ UNCHANGED <<buffer_queue, eof, cancel_token, alive, ppc, pushed, reads,
                   eof_sets, frames_after_cancel>>
    /\ UNCHANGED notAudioVars

\* The cancellation slot of async_open: the token is set, and the stream is
\* cancelled when it is still there.
OpenCancel ==
    /\ ~cancel_token
    /\ cancel_token' = TRUE
    /\ IF alive
       THEN ImplCancel
       ELSE UNCHANGED <<stream_cancelled, pending_read, pending_alloc_read, read_log>>
    /\ UNCHANGED <<buffer_queue, eof, alive, ppc, pushed, reads, eof_sets,
                   frames_after_cancel>>
    /\ UNCHANGED notAudioVars

\* The last owner lets go of the stream: ~Impl() calls cancel().
Destroy ==
    /\ alive
    /\ alive' = FALSE
    /\ ImplCancel
    /\ UNCHANGED <<buffer_queue, eof, cancel_token, ppc, pushed, reads, eof_sets,
                   frames_after_cancel>>
    /\ UNCHANGED notAudioVars

NextAudio ==
    \/ \E input_end \in BOOLEAN, size \in ChunkSizes : ProducerStep(input_end, size)
    \/ \E size \in BufferSizes : Read(size)
    \/ ReadAlloc
    \/ StreamCancel
    \/ OpenCancel
    \/ Destroy

SpecAudio == InitAudio /\ [][NextAudio]_vars

\* The bytes handed to the reads so far, in the order of their completions.
RECURSIVE DeliveredBytes(_)
DeliveredBytes(log) ==
    IF log = <<>> THEN <<>> ELSE Head(log).bytes \o DeliveredBytes(Tail(log))

\* C22: the FIFO is bounded: it never holds every chunk of an input of
\* MaxFrames frames, because the decoder is held back in push_data while the
\* queue is full.
C22_QueueBounded == Len(buffer_queue) < MaxFrames

\* C23: eof is set at most once and never cleared; once the stream is
\* cancelled the queue does not change any more, whatever is pushed, and
\* every read that completes does so with a cancellation error, data in the
\* queue or not; a decoder that exits while the stream is there has set eof.
C23_EofAndCancelledAreFinal ==
    /\ [](eof_sets <= 1 /\ (eof_sets = 1 <=> eof))
    /\ []((ppc = "exited" /\ alive) => eof)
    /\ [][eof => eof']_vars
    /\ [][stream_cancelled => (stream_cancelled' /\ buffer_queue' = buffer_queue)]_vars
    /\ [](\A k \in 1..Len(read_log) :
             read_log[k].cancelled => read_log[k].kind = "aborted")

\* C23 witness: on a cancelled stream that holds data and has reached eof, a
\* read was started and completed with a cancellation error.
C23_Witness ==
    /\ stream_cancelled
    /\ eof
    /\ buffer_queue # <<>>
    /\ Len(pushed) > Len(buffer_queue)
    /\ \E k \in 1..Len(read_log) :
          /\ read_log[k].cancelled
          /\ read_log[k].by = "read"
          /\ read_log[k].kind = "aborted"

\* C24: while the stream is not cancelled, the bytes delivered to the reads
\* followed by the bytes in the queue are the bytes pushed, in push order; a
\* read of bytes takes min(buffer, front chunk), and a read completes with
\* nothing only at eof with every pushed byte delivered.
C24_BytesInOrder ==
    ~stream_cancelled =>
        /\ DeliveredBytes(read_log) \o Flatten(buffer_queue) = Flatten(pushed)
        /\ \A k \in 1..Len(read_log) :
              read_log[k].bytes = <<>> =>
                  (read_log[k].kind = "eof" /\ (read_log[k].eof \/ read_log[k].by = "set_eof")
                   /\ read_log[k].drained)

\* C24 witness: two chunks of three bytes or more were delivered in full,
\* one read having waited for its data and one having left the remainder of
\* its chunk in the queue.
C24_Witness ==
    /\ ~stream_cancelled
    /\ Len(pushed) = 2
    /\ DeliveredBytes(read_log) = Flatten(pushed)
    /\ Len(DeliveredBytes(read_log)) >= 3
    /\ \E k \in 1..Len(read_log) : read_log[k].by = "push"
    /\ \E k \in 1..Len(read_log) : read_log[k].kind = "data" /\ ~read_log[k].drained

\* C25: after cancel() on a stream that stays alive the decoder decodes at
\* most the frame it is at, and exits.
C25_CancelStopsDecoder ==
    alive => frames_after_cancel <= 1

\* The reads that have not completed.
PendingReads == (IF pending_read # <<>> THEN 1 ELSE 0) + (IF pending_alloc_read THEN 1 ELSE 0)

\* C26: once the stream is cancelled no read is pending; the read that was
\* pending when cancel() ran completed with a cancellation error there and
\* then; every read started has completed exactly once or is still pending.
C26_CancelCompletesPendingRead ==
    /\ stream_cancelled => PendingReads = 0
    /\ Len(read_log) + PendingReads = reads
    /\ \A k \in 1..Len(read_log) :
          read_log[k].by = "cancel" => read_log[k].kind = "aborted"

\* C26 witness: a read was pending when the stream was cancelled and got its
\* cancellation error from cancel().
C26_Witness ==
    /\ stream_cancelled
    /\ alive
    /\ ppc = "decoding"
    /\ read_log # <<>>
    /\ read_log[Len(read_log)].by = "cancel"
    /\ read_log[Len(read_log)].kind = "aborted"

-----------------------------------------------------------------------------
(* Part VIII: JsEngine::Impl (src/src/scripting/js_engine_v8.cpp).  The
   worker thread initialises V8, runs the jobs posted to ioc and cleans up;
   shutdown() runs on the caller's thread.  A job is an evaluation that ends
   by itself ("finite") or one that ends only when it is interrupted
   ("looping"); it was submitted through RunOnWorker ("sync") or through
   RunOnWorkerAsync ("async"). *)

MaxJobs == 3

MaxShutdowns == 2

JobKinds == { "finite", "looping" }

JobModes == { "sync", "async" }

\* The handler ioc.run() takes next: the one posted first.
\* (TakeLast is a faulty variant that takes the one posted last.)
TakeLast(queue) ==
    [job |-> queue[Len(queue)], rest |-> SubSeq(queue, 1, Len(queue) - 1)]

TakeNext(queue) == [job |-> Head(queue), rest |-> Tail(queue)]

\* How the end of a job reaches the submitter: RunOnWorker sets the promise
\* and the caller's future.get() returns in the caller's thread;
\* RunOnWorkerAsync calls the handler where it is, in the posted job.
JobResult(job, interrupted) ==
    [id |-> job.id, mode |-> job.mode,
     outcome |-> IF interrupted THEN "error" ELSE "value",
     thread |-> IF job.mode = "sync" THEN "caller" ELSE "worker"]

\* isolate->TerminateExecution(), asked only of an isolate that is there.
TerminateExecution(is_there, requested) == requested \/ is_there

InitEngine ==
    /\ EjsIdle
    /\ DnsIdle
    /\ PoolIdle
    /\ JointIdle
    /\ ThreadsIdle
    /\ CliIdle
    /\ SearchIdle
    /\ SessionIdle
    /\ SolverIdle
    /\ FormatIdle
    /\ DownloadIdle
    /\ SelectIdle
    /\ CoordIdle
    /\ AudioIdle
    /\ isolate = FALSE
    /\ engine_shutdown = FALSE
    /\ terminating = FALSE
    /\ ioc_stopped = FALSE
    /\ ioc_queue = <<>>
    /\ worker = "starting"
    /\ running_job = NoJob
    /\ sdpc = "out"
    /\ shutdown_returns = 0
    /\ executed = <<>>
    /\ submitted = 0
    /\ job_results = <<>>

\* The worker thread: InitializeV8OnThread() creates the isolate.
WorkerInit ==
    /\ worker = "starting"
    /\ isolate' = TRUE
    /\ worker' = "polling"
    /\ UNCHANGED <<engine_shutdown, terminating, ioc_stopped, ioc_queue,
                   running_job, sdpc, shutdown_returns, executed, submitted, job_results>>
    /\ UNCHANGED notEngineVars

\* ioc.run() takes the next posted job, in the order of the posts, and
\* starts it; a stopped io_context starts none.
WorkerRun ==
    /\ worker = "polling"
    /\ ~ioc_stopped
    /\ ioc_queue # <<>>
    /\ worker' = "running"
    /\ running_job' = TakeNext(ioc_queue).job
    /\ ioc_queue' = TakeNext(ioc_queue).rest
    /\ executed' = Append(executed, [job |-> TakeNext(ioc_queue).job.id,
                                     shutdown_returned |-> shutdown_returns > 0])
    /\ UNCHANGED <<isolate, engine_shutdown, terminating, ioc_stopped, sdpc,
                   shutdown_returns, submitted, job_results>>
    /\ UNCHANGED notEngineVars

\* The job's evaluation ends: by itself, or at the next interruptible point
\* once termination was requested; the promise is set or the handler called.
JobReturns(interrupted) ==
    /\ worker = "running"
    /\ IF interrupted THEN terminating ELSE running_job.kind = "finite"
    /\ worker' = "polling"
    /\ running_job' = NoJob
    /\ job_results' = Append(job_results, JobResult(running_job, interrupted))
    /\ UNCHANGED <<isolate, engine_shutdown, terminating, ioc_stopped, ioc_queue,
                   sdpc, shutdown_returns, executed, submitted>>
    /\ UNCHANGED notEngineVars

\* ioc.run() returns once ioc is stopped; CleanupV8OnThread() disposes of
\* the isolate (the pointer is not reset) and the thread ends.
WorkerExit ==
    /\ worker = "polling"
    /\ ioc_stopped
    /\ worker' = "exited"
    /\ UNCHANGED <<isolate, engine_shutdown, terminating, ioc_stopped, ioc_queue,
                   running_job, sdpc, shutdown_returns, executed, submitted, job_results>>
    /\ UNCHANGED notEngineVars

\* RunOnWorker() and RunOnWorkerAsync(): the job is posted to ioc (the
\* caller of RunOnWorker then waits for the future).
Submit(kind, mode) ==
    /\ worker # "none"
    /\ submitted < MaxJobs
    /\ ioc_queue' = Append(ioc_queue, [id |-> submitted + 1, kind |-> kind,
                                       mode |-> mode])
    /\ submitted' = submitted + 1
    /\ UNCHANGED <<isolate, engine_shutdown, terminating, ioc_stopped, worker,
                   running_job, sdpc, shutdown_returns, executed, job_results>>
    /\ UNCHANGED notEngineVars

\* shutdown(), first call: the flag is exchanged and the isolate, if the
\* caller's thread sees one, is asked to terminate.
ShutdownBegin ==
    /\ worker # "none"
    /\ sdpc = "out"
    /\ ~engine_shutdown
    /\ engine_shutdown' = TRUE
    /\ terminating' = TerminateExecution(isolate, terminating)
    /\ sdpc' = "entered"
    /\ UNCHANGED <<isolate, ioc_stopped, ioc_queue, worker, running_job,
                   shutdown_returns, executed, submitted, job_results>>
    /\ UNCHANGED notEngineVars

\* shutdown(): work_guard->reset() and ioc.stop().
ShutdownStop ==
    /\ sdpc = "entered"
    /\ ioc_stopped' = TRUE
    /\ sdpc' = "joining"
    /\ UNCHANGED <<isolate, engine_shutdown, terminating, ioc_queue, worker,
                   running_job, shutdown_returns, executed, submitted, job_results>>
    /\ UNCHANGED notEngineVars

\* shutdown(): worker.join() returns when the worker thread has ended.
ShutdownJoin ==
    /\ sdpc = "joining"
    /\ worker = "exited"
    /\ sdpc' = "out"
    /\ shutdown_returns' = shutdown_returns + 1
    /\ UNCHANGED <<isolate, engine_shutdown, terminating, ioc_stopped, ioc_queue,
                   worker, running_job, executed, submitted, job_results>>
    /\ UNCHANGED notEngineVars

\* shutdown(), a later call: the flag is already set and the call returns.
ShutdownAgain ==
    /\ sdpc = "out"
    /\ engine_shutdown
    /\ shutdown_returns < MaxShutdowns
    /\ shutdown_returns' = shutdown_returns + 1
    /\ UNCHANGED <<isolate, engine_shutdown, terminating, ioc_stopped, ioc_queue,
                   worker, running_job, sdpc, executed, submitted, job_results>>
    /\ UNCHANGED notEngineVars

NextEngine ==
    \/ WorkerInit
    \/ WorkerRun
    \/ \E interrupted \in BOOLEAN : JobReturns(interrupted)
    \/ WorkerExit
    \/ \E kind \in JobKinds, mode \in JobModes : Submit(kind, mode)
    \/ ShutdownBegin
    \/ ShutdownStop
    \/ ShutdownJoin
    \/ ShutdownAgain

SpecEngine == InitEngine /\ [][NextEngine]_vars

\* Both threads go on running: the worker takes its steps, an evaluation
\* that can end does end, and a thread inside shutdown() goes on.
SpecEngineLive ==
    /\ SpecEngine
    /\ WF_vars(WorkerInit)
    /\ WF_vars(WorkerRun)
    /\ WF_vars(\E interrupted \in BOOLEAN : JobReturns(interrupted))
    /\ WF_vars(WorkerExit)
    /\ WF_vars(ShutdownStop)
    /\ WF_vars(ShutdownJoin)

\* shutdown() has returned only with the worker thread ended.
ReturnsAfterWorkerStopped == shutdown_returns > 0 => worker = "exited"

\* No job was started after shutdown() had returned.
NoJobAfterShutdown ==
    \A k \in 1..Len(executed) : ~executed[k].shutdown_returned

\* A call of shutdown() on an engine already shut down changes nothing of it.
RepeatedShutdownIsIdle ==
    [][(engine_shutdown /\ sdpc = "out" /\ shutdown_returns' # shutdown_returns)
          => UNCHANGED <<isolate, terminating, ioc_stopped, ioc_queue, worker,
                         running_job, executed>>]_vars

\* The evaluation that runs while shutdown() waits for the worker has been
\* asked to terminate.
InFlightInterrupted ==
    (sdpc = "joining" /\ worker = "running") => terminating

\* A call of shutdown() returns.
ShutdownReturns == (sdpc = "entered") ~> (sdpc = "out")

\* C27: shutdown() returns only after the worker thread has stopped; it does
\* return while a job is executing, the running evaluation being
\* interrupted; after it has returned no submitted job is executed; a
\* repeated call has no further effect.
C27_ShutdownStopsWorker ==
    /\ []ReturnsAfterWorkerStopped
    /\ []NoJobAfterShutdown
    /\ RepeatedShutdownIsIdle
    /\ []InFlightInterrupted
    /\ ShutdownReturns

\* C32: the jobs are started in the order of their submission, whatever
\* their mode, each after the one before it has ended, all by the one worker
\* thread.
C32_JobsInOrderOneAtATime ==
    /\ \A j, k \in 1..Len(executed) : j < k => executed[j].job < executed[k].job
    /\ Len(executed) - Len(job_results) = (IF worker = "running" THEN 1 ELSE 0)
    /\ worker = "running" => running_job.id = executed[Len(executed)].job
    /\ \A k \in 1..Len(job_results) : job_results[k].id = executed[k].job

\* C32 witness: three jobs, synchronous and asynchronous, all submitted
\* before the first was started, have been run one after the other.
C32_Witness ==
    /\ Len(job_results) = 3
    /\ \E k \in 1..3 : job_results[k].mode = "sync"
    /\ \E k \in 1..3 : job_results[k].mode = "async"
    /\ [k \in 1..3 |-> job_results[k].id] = << 1, 2, 3 >>

\* The submissions that have reached their submitter.
Completed == { job_results[k].id : k \in 1..Len(job_results) }

\* A job that does not end by itself is queued or running.
LoopingJob ==
    \/ running_job.kind = "looping"
    \/ \E k \in 1..Len(ioc_queue) : ioc_queue[k].kind = "looping"

\* C33: every submission completes, and once: when all the jobs end by
\* themselves, a job that was submitted is in the end among the results,
\* the jobs still queued at shutdown and those submitted after it included.
C33_EverySubmissionCompletes ==
    /\ [](\A j, k \in 1..Len(job_results) :
             j # k => job_results[j].id # job_results[k].id)
    /\ \/ <>LoopingJob
       \/ \A id \in 1..MaxJobs : (submitted >= id) ~> (id \in Completed)

\* C34: no handler of an asynchronous operation is invoked on the worker
\* thread.
C34_HandlerOnCallersExecutor ==
    \A k \in 1..Len(job_results) :
        job_results[k].mode = "async" => job_results[k].thread # "worker"

-----------------------------------------------------------------------------
(* Part IX: parse_search_url (src/src/youtube/extractor.cpp).  Strings are
   sequences of characters, positions count from 0. *)

MaxN == 12

S_ytsearch == << "y", "t", "s", "e", "a", "r", "c", "h" >>
S_all == << "a", "l", "l" >>
S_date == << "d", "a", "t", "e" >>
S_colon == << ":" >>

DigitChars == << "0", "1", "2", "3", "4", "5", "6", "7", "8", "9" >>

IsDigit(c) == \E d \in 1..10 : DigitChars[d] = c

\* c - '0'
DigitValue(c) == (CHOOSE d \in 1..10 : DigitChars[d] = c) - 1

std_nullopt == [valid |-> FALSE]

SearchOptions(query, max_results, sort_by_date) ==
    [valid |-> TRUE, query |-> query, max_results |-> max_results,
     sort_by_date |-> sort_by_date]

\* n = n * 10 + (c - '0')
\* (AccumulateNoShift is a faulty variant that only adds the digit.)
AccumulateNoShift(n, c) == n + DigitValue(c)

Accumulate(n, c) == n * 10 + DigitValue(c)

\* std::stoi on a string without sign or space: the value of the leading
\* digits; without a leading digit it throws, which the caller turns into 1.
RECURSIVE LeadingValue(_, _)
LeadingValue(str, n) ==
    IF str = <<>> \/ ~IsDigit(Head(str)) THEN n
    ELSE LeadingValue(Tail(str), n * 10 + DigitValue(Head(str)))

stoi_or_1(str) ==
    IF str = <<>> \/ ~IsDigit(Head(str)) THEN 1 ELSE LeadingValue(str, 0)

\* The loop over the characters of a modifier that is not empty, "all" or
\* "date": [ok, n, sort_by_date] when it ends or breaks, [ok |-> FALSE]
\* when it returns nullopt.
RECURSIVE NumberLoop(_, _, _)
NumberLoop(modifier, i, n) ==
    IF i > Len(modifier) THEN [ok |-> TRUE, n |-> n, sort_by_date |-> FALSE]
    ELSE IF IsDigit(modifier[i]) THEN NumberLoop(modifier, i + 1, Accumulate(n, modifier[i]))
    ELSE LET date_pos == Find(modifier, S_date, 0)
         IN  IF date_pos # npos
             THEN [ok |-> TRUE,
                   n |-> IF date_pos > 0
                         THEN stoi_or_1(Substr(modifier, 0, date_pos))
                         ELSE n,
                   sort_by_date |-> TRUE]
             ELSE [ok |-> FALSE]

parse_search_url(url) ==
    IF Substr(url, 0, Len(S_ytsearch)) # S_ytsearch THEN std_nullopt
    ELSE LET remainder == Substr(url, Len(S_ytsearch), npos)
             colon_pos == Find(remainder, S_colon, 0)
         IN  IF colon_pos = npos THEN std_nullopt
             ELSE LET modifier == Substr(remainder, 0, colon_pos)
                      query == Substr(remainder, colon_pos + 1, npos)
                  IN  IF query = <<>> THEN std_nullopt
                      ELSE IF modifier = <<>> THEN SearchOptions(query, 1, FALSE)
                      ELSE IF modifier = S_all THEN SearchOptions(query, 100, FALSE)
                      ELSE IF modifier = S_date THEN SearchOptions(query, 10, TRUE)
                      ELSE LET r == NumberLoop(modifier, 1, 0)
                           IN  IF ~r.ok THEN std_nullopt
                               ELSE SearchOptions(query,
                                                  IF r.n <= 0 THEN 1 ELSE r.n,
                                                  r.sort_by_date)

\* The decimal numeral of a natural number.
RECURSIVE Decimal(_)
Decimal(n) ==
    IF n < 10 THEN << DigitChars[n + 1] >>
    ELSE Decimal(n \div 10) \o << DigitChars[(n % 10) + 1] >>

\* The inputs: the modifiers of the grammar and some that are not of it, the
\* queries (one empty, one with a colon in it), with and without the prefix
\* and the colon.
Numerals == { Decimal(n) : n \in 1..MaxN }

Modifiers ==
    { <<>>, S_all, S_date } \cup Numerals \cup { num \o S_date : num \in Numerals }
    \cup { << "0" >>, << "0", "5" >>, << "x" >>, << "5", "x" >>,
           S_date \o << "5" >>, << "0" >> \o S_date }

Queries == { <<>>, << "a" >>, << "a", ":", "b" >>, << "a", " ", "b" >> }

Prefixes == { S_ytsearch, << "y", "t" >> }

SearchUrls ==
    { p \o mod \o sep \o q :
        p \in Prefixes, mod \in Modifiers, sep \in { S_colon, <<>> }, q \in Queries }

InitSearch ==
    /\ EjsIdle
    /\ DnsIdle
    /\ PoolIdle
    /\ JointIdle
    /\ ThreadsIdle
    /\ CliIdle
    /\ SessionIdle
    /\ SolverIdle
    /\ FormatIdle
    /\ DownloadIdle
    /\ SelectIdle
    /\ CoordIdle
    /\ AudioIdle
    /\ EngineIdle
    /\ search_url \in SearchUrls
    /\ search_opts = std_nullopt
    /\ search_state = "input"

ParseSearchUrl ==
    /\ search_state = "input"
    /\ search_opts' = parse_search_url(search_url)
    /\ search_state' = "parsed"
    /\ UNCHANGED search_url
    /\ UNCHANGED notSearchVars

NextSearch == ParseSearchUrl

SpecSearch == InitSearch /\ [][NextSearch]_vars

\* ytsearch<MOD>:<query>
SearchUrl(mod, query) == S_ytsearch \o mod \o S_colon \o query

\* The queries that are not empty.
RealQueries == Queries \ { <<>> }

\* C28: of ytsearch<MOD>:<query> with a query that is not empty,
\* parse_search_url returns the query and 1 result for the empty MOD, N for
\* the numeral of a positive N, 100 for "all", all three not sorted by date,
\* 10 sorted by date for "date" and N sorted by date for <N>date; with an
\* empty query it returns nothing.
C28_SearchUrlGrammar ==
    search_state = "parsed" =>
        /\ \A q \in RealQueries :
            /\ search_url = SearchUrl(<<>>, q) => search_opts = SearchOptions(q, 1, FALSE)
            /\ search_url = SearchUrl(S_all, q) => search_opts = SearchOptions(q, 100, FALSE)
            /\ search_url = SearchUrl(S_date, q) => search_opts = SearchOptions(q, 10, TRUE)
            /\ \A n \in 1..MaxN :
                /\ search_url = SearchUrl(Decimal(n), q)
                      => search_opts = SearchOptions(q, n, FALSE)
                /\ search_url = SearchUrl(Decimal(n) \o S_date, q)
                      => search_opts = SearchOptions(q, n, TRUE)
        /\ \A mod \in Modifiers :
              search_url = SearchUrl(mod, <<>>) => search_opts = std_nullopt

\* C28 witness: ytsearch12date:a:b was parsed into 12 results sorted by date
\* for the query a:b.
C28_Witness ==
    /\ search_state = "parsed"
    /\ search_url = SearchUrl(<< "1", "2" >> \o S_date, << "a", ":", "b" >>)
    /\ search_opts = SearchOptions(<< "a", ":", "b" >>, 12, TRUE)

-----------------------------------------------------------------------------
(* Part X: main and run_app (src/src/main.cpp).  The command line is what
   the option parser makes of it; the outcomes of the search, of the
   extraction, of the selection and of the download are inputs of the steps
   of run_app. *)

MaxItems == 2

UrlKinds == { "none", "video", "search" }

\* The one mode flag given besides the URL, if any.
Flags == { "none", "stream_audio", "dump_json", "list_formats", "print",
           "get_url", "simulate", "flat_playlist" }

\* --manual-merge is absent (-1) or has that many arguments.
CommandLines ==
    [unknown_option : BOOLEAN, help : BOOLEAN, manual_merge : { -1, 2, 3 },
     url : UrlKinds, flag : Flags]

InitCli ==
    /\ EjsIdle
    /\ DnsIdle
    /\ PoolIdle
    /\ JointIdle
    /\ ThreadsIdle
    /\ SessionIdle
    /\ SolverIdle
    /\ FormatIdle
    /\ DownloadIdle
    /\ SelectIdle
    /\ CoordIdle
    /\ AudioIdle
    /\ EngineIdle
    /\ SearchIdle
    /\ argv \in CommandLines
    /\ cli_pc = "main"
    /\ items_left = 0
    /\ g_cancelled = FALSE
    /\ exit_status = -1
    /\ failures = {}

\* main returns status: the process exits with it.
Return(status, failed) ==
    /\ exit_status' = status
    /\ failures' = failures \cup failed
    /\ cli_pc' = "exited"

\* run_app returns.
RunAppReturn(failed) ==
    /\ failures' = failures \cup failed
    /\ cli_pc' = "returned"

\* main, up to ioc.run(): the options are parsed (an unknown option throws
\* and the handler of the exception returns 1), then --help, --manual-merge
\* and the missing URL are dealt with; otherwise run_app is spawned.
Main(merged) ==
    /\ cli_pc = "main"
    /\ IF argv.unknown_option THEN Return(1, { "usage" })
       ELSE IF argv.help THEN Return(0, {})
       ELSE IF argv.manual_merge # -1
            THEN IF argv.manual_merge # 3 THEN Return(1, { "usage" })
                 ELSE IF merged THEN Return(0, {})
                 ELSE Return(1, { "merge" })
       ELSE IF argv.url = "none" THEN Return(1, { "usage" })
       ELSE /\ cli_pc' = "run_app"
            /\ UNCHANGED <<exit_status, failures>>
    /\ UNCHANGED <<argv, items_left, g_cancelled>>
    /\ UNCHANGED notCliVars

\* run_app with a search URL: the search fails, or finds nothing, or its
\* results are printed, listed, or gone through one by one.
RunAppSearch(found) ==
    /\ cli_pc = "run_app"
    /\ argv.url = "search"
    /\ IF found = -1 THEN RunAppReturn({ "search" }) /\ UNCHANGED items_left
       ELSE IF found = 0 THEN RunAppReturn({ "search" }) /\ UNCHANGED items_left
       ELSE IF argv.flag \in { "dump_json", "flat_playlist" }
            THEN RunAppReturn({}) /\ UNCHANGED items_left
       ELSE /\ cli_pc' = "items"
            /\ items_left' = found
            /\ UNCHANGED failures
    /\ UNCHANGED <<argv, g_cancelled, exit_status>>
    /\ UNCHANGED notCliVars

\* run_app, one item of the search results: extraction, then the URLs are
\* printed or the video is downloaded; a failure is reported and the loop
\* goes on.
RunAppItem(extracted, downloaded) ==
    /\ cli_pc = "items"
    /\ items_left > 0
    /\ items_left' = items_left - 1
    /\ failures' = failures \cup
                   (IF ~extracted THEN { "extraction" }
                    ELSE IF argv.flag = "get_url" THEN {}
                    ELSE IF ~downloaded THEN { "download" } ELSE {})
    /\ cli_pc' = IF items_left = 1 THEN "returned" ELSE "items"
    /\ UNCHANGED <<argv, g_cancelled, exit_status>>
    /\ UNCHANGED notCliVars

\* run_app with a video URL, up to the download: extraction, then the mode
\* the flag asks for.
RunAppVideo(extracted, usable) ==
    /\ cli_pc = "run_app"
    /\ argv.url = "video"
    /\ IF ~extracted THEN RunAppReturn({ "extraction" })
       ELSE IF argv.flag = "stream_audio"
            THEN RunAppReturn(IF usable THEN {} ELSE { "stream" })
       ELSE IF argv.flag \in { "dump_json", "list_formats", "print" }
            THEN RunAppReturn({})
       ELSE IF argv.flag = "get_url"
            THEN RunAppReturn(IF usable THEN {} ELSE { "format" })
       ELSE IF ~usable THEN RunAppReturn({ "format" })
       ELSE IF argv.flag = "simulate" THEN RunAppReturn({})
       ELSE /\ cli_pc' = "download"
            /\ UNCHANGED failures
    /\ UNCHANGED <<argv, items_left, g_cancelled, exit_status>>
    /\ UNCHANGED notCliVars

\* run_app, after async_download: the result is printed.
RunAppDownload(downloaded) ==
    /\ cli_pc = "download"
    /\ RunAppReturn(IF downloaded THEN {} ELSE { "download" })
    /\ UNCHANGED <<argv, items_left, g_cancelled, exit_status>>
    /\ UNCHANGED notCliVars

\* The handler of SIGINT and SIGTERM: g_cancelled is set and ioc is stopped.
Signal ==
    /\ cli_pc \in { "run_app", "items", "download" }
    /\ g_cancelled' = TRUE
    /\ cli_pc' = "returned"
    /\ UNCHANGED <<argv, items_left, exit_status, failures>>
    /\ UNCHANGED notCliVars

\* main, after ioc.run() has returned.
MainReturn ==
    /\ cli_pc = "returned"
    /\ Return(0, {})
    /\ UNCHANGED <<argv, items_left, g_cancelled>>
    /\ UNCHANGED notCliVars

NextCli ==
    \/ \E merged \in BOOLEAN : Main(merged)
    \/ \E found \in -1..MaxItems : RunAppSearch(found)
    \/ \E extracted, downloaded \in BOOLEAN : RunAppItem(extracted, downloaded)
    \/ \E extracted, usable \in BOOLEAN : RunAppVideo(extracted, usable)
    \/ \E downloaded \in BOOLEAN : RunAppDownload(downloaded)
    \/ Signal
    \/ MainReturn

SpecCli == InitCli /\ [][NextCli]_vars

\* C29: a run that no signal has cut short exits with 1 when it has failed
\* (usage, search, extraction, format, download, merge) and with 0 when it
\* has not.
C29_ExitStatus ==
    (cli_pc = "exited" /\ ~g_cancelled) =>
        exit_status = (IF failures # {} THEN 1 ELSE 0)

-----------------------------------------------------------------------------
(* Part XI: the response callbacks of AsyncSession::fetch_all_clients
   (src/src/youtube/extractor.cpp) when the executor runs them on several
   threads.  A callback is two steps: what it does holding response_mutex_,
   and the test of pending_clients_ it makes after it has let the mutex go.
   The session is not cancelled. *)

\* fetch_all_clients has sent the request of every client.
InitThreads ==
    /\ EjsIdle
    /\ DnsIdle
    /\ PoolIdle
    /\ JointIdle
    /\ SessionIdle
    /\ SolverIdle
    /\ FormatIdle
    /\ DownloadIdle
    /\ SelectIdle
    /\ CoordIdle
    /\ AudioIdle
    /\ EngineIdle
    /\ SearchIdle
    /\ CliIdle
    /\ callback = [c \in 1..NumClients |-> "flying"]
    /\ pending_count = NumClients
    /\ stored = <<>>
    /\ finish_runs = 0
    /\ complete_calls = 0

\* The callback of client c, under the mutex: a playable response is kept,
\* and the counter is decremented.
CallbackLocked(c, playable) ==
    /\ callback # <<>>
    /\ callback[c] = "flying"
    /\ stored' = IF playable THEN Append(stored, c) ELSE stored
    /\ pending_count' = pending_count - 1
    /\ callback' = [callback EXCEPT ![c] = "counted"]
    /\ UNCHANGED <<finish_runs, complete_calls>>
    /\ UNCHANGED notThreadsVars

\* The callback of client c, after the mutex: finish() runs when the counter
\* reads 0; every run of finish() ends in a call of complete(), at once when
\* there is no response and after the formats otherwise.
CallbackCheck(c) ==
    /\ callback # <<>>
    /\ callback[c] = "counted"
    /\ callback' = [callback EXCEPT ![c] = "done"]
    /\ IF pending_count = 0
       THEN /\ finish_runs' = finish_runs + 1
            /\ complete_calls' = complete_calls + 1
       ELSE UNCHANGED <<finish_runs, complete_calls>>
    /\ UNCHANGED <<pending_count, stored>>
    /\ UNCHANGED notThreadsVars

NextThreads ==
    \/ \E c \in 1..NumClients, playable \in BOOLEAN : CallbackLocked(c, playable)
    \/ \E c \in 1..NumClients : CallbackCheck(c)

SpecThreads == InitThreads /\ [][NextThreads]_vars

\* C30: finish() runs at most once, not before every client's response has
\* been counted, and it has run when every callback is over; complete() is
\* called at most once.
C30_FinishOnce ==
    /\ finish_runs <= 1
    /\ complete_calls <= 1
    /\ finish_runs > 0 => \A c \in 1..NumClients : callback[c] # "flying"
    /\ (\A c \in 1..NumClients : callback[c] = "done") => finish_runs = 1

-----------------------------------------------------------------------------
(* Part XII: the completion callbacks of the two downloads of
   AsyncDownloaderSession (src/src/downloader/downloader.cpp) when the
   executor runs them on two threads.  active_downloads_ is a plain int:
   --active_downloads_ is a read and a write, and the other thread can come
   in between. *)

JointTracks == { 1, 2 }

\* start() has begun both downloads.
InitJoint ==
    /\ EjsIdle
    /\ DnsIdle
    /\ PoolIdle
    /\ SessionIdle
    /\ SolverIdle
    /\ FormatIdle
    /\ DownloadIdle
    /\ SelectIdle
    /\ CoordIdle
    /\ AudioIdle
    /\ EngineIdle
    /\ SearchIdle
    /\ CliIdle
    /\ ThreadsIdle
    /\ dl_pc = [t \in JointTracks |-> "flying"]
    /\ dl_ok \in [JointTracks -> BOOLEAN]
    /\ dl_reg = [t \in JointTracks |-> 0]
    /\ active_count = 2
    /\ error_flag = FALSE
    /\ joint_results = <<>>

\* The download's handler begins: an error sets error_occurred_.
CallbackEnter(t) ==
    /\ dl_pc # <<>>
    /\ dl_pc[t] = "flying"
    /\ error_flag' = (error_flag \/ ~dl_ok[t])
    /\ dl_pc' = [dl_pc EXCEPT ![t] = "entered"]
    /\ UNCHANGED <<dl_ok, dl_reg, active_count, joint_results>>
    /\ UNCHANGED notJointVars

\* --active_downloads_, the read.
CounterLoad(t) ==
    /\ dl_pc # <<>>
    /\ dl_pc[t] = "entered"
    /\ dl_reg' = [dl_reg EXCEPT ![t] = active_count]
    /\ dl_pc' = [dl_pc EXCEPT ![t] = "loaded"]
    /\ UNCHANGED <<dl_ok, active_count, error_flag, joint_results>>
    /\ UNCHANGED notJointVars

\* --active_downloads_, the write of the value read less one.
CounterStore(t) ==
    /\ dl_pc # <<>>
    /\ dl_pc[t] = "loaded"
    /\ active_count' = dl_reg[t] - 1
    /\ dl_reg' = [dl_reg EXCEPT ![t] = dl_reg[t] - 1]
    /\ dl_pc' = [dl_pc EXCEPT ![t] = "stored"]
    /\ UNCHANGED <<dl_ok, error_flag, joint_results>>
    /\ UNCHANGED notJointVars

\* on_download_complete, the test of the decremented value: at 0 the session
\* completes, with request_failed after an error and through finalize()
\* otherwise.
CounterTest(t) ==
    /\ dl_pc # <<>>
    /\ dl_pc[t] = "stored"
    /\ dl_pc' = [dl_pc EXCEPT ![t] = "done"]
    /\ joint_results' =
          IF dl_reg[t] = 0
          THEN Append(joint_results, IF error_flag THEN "request_failed" ELSE "finalized")
          ELSE joint_results
    /\ UNCHANGED <<dl_ok, dl_reg, active_count, error_flag>>
    /\ UNCHANGED notJointVars

NextJoint ==
    \/ \E t \in JointTracks : CallbackEnter(t)
    \/ \E t \in JointTracks : CounterLoad(t)
    \/ \E t \in JointTracks : CounterStore(t)
    \/ \E t \in JointTracks : CounterTest(t)

SpecJoint == InitJoint /\ [][NextJoint]_vars

\* C31: the completion handler is invoked at most once, not before both
\* completions have been counted, and it has been invoked when both
\* callbacks are over.
C31_JointCompletesOnce ==
    /\ Len(joint_results) <= 1
    /\ joint_results # <<>> =>
          \A t \in JointTracks : dl_pc[t] \in { "stored", "done" }
    /\ (\A t \in JointTracks : dl_pc[t] = "done") => Len(joint_results) = 1

-----------------------------------------------------------------------------
(* Part XIII: the connection pool of HttpClient::Impl
   (src/src/net/http_client.cpp).  acquire_connection and release_connection
   hold pool_mutex_, so each is one step; perform_request calls them from
   any number of threads, and RequestSession is the asynchronous path of
   get and post.  A pooled connection is its last_used time. *)

kMaxPoolSize == 4

kConnectionTimeout == 30

MaxTime == 30

MaxThreads == 5

PoolKeys == { 1, 2 }

\* The test release_connection makes of the key's pool.
\* (UnderCapOrAt is a faulty variant that lets a full pool grow.)
UnderCapOrAt(conns) == Len(conns) <= kMaxPoolSize

UnderCap(conns) == Len(conns) < kMaxPoolSize

\* acquire_connection: connections are taken from the back; the stale ones
\* are thrown away until one is fresh or none is left.
RECURSIVE AcquireFrom(_, _)
AcquireFrom(conns, now) ==
    IF conns = <<>> THEN [found |-> FALSE, conns |-> <<>>]
    ELSE LET rest == SubSeq(conns, 1, Len(conns) - 1)
         IN  IF now - conns[Len(conns)] < kConnectionTimeout
             THEN [found |-> TRUE, conns |-> rest]
             ELSE AcquireFrom(rest, now)

\* release_connection: the connection is pushed with the time of now when
\* the pool is under the cap, and let go otherwise.
ReleaseTo(conns, now) ==
    IF UnderCap(conns) THEN Append(conns, now) ELSE conns

InitPool ==
    /\ EjsIdle
    /\ DnsIdle
    /\ SessionIdle
    /\ SolverIdle
    /\ FormatIdle
    /\ DownloadIdle
    /\ SelectIdle
    /\ CoordIdle
    /\ AudioIdle
    /\ EngineIdle
    /\ SearchIdle
    /\ CliIdle
    /\ ThreadsIdle
    /\ JointIdle
    /\ conn_pool_ = [k \in PoolKeys |-> <<>>]
    /\ pool_now = 0
    /\ in_request = [k \in PoolKeys |-> 0]
    /\ last_request = NoRequest

\* perform_request, the beginning: a pooled connection is acquired, or a new
\* one is made.
PerformRequestBegin(key) ==
    /\ conn_pool_ # <<>>
    /\ in_request[1] + in_request[2] < MaxThreads
    /\ conn_pool_' = [conn_pool_ EXCEPT ![key] = AcquireFrom(conn_pool_[key], pool_now).conns]
    /\ in_request' = [in_request EXCEPT ![key] = in_request[key] + 1]
    /\ UNCHANGED <<pool_now, last_request>>
    /\ UNCHANGED notPoolVars

\* perform_request, the end: a write or read error returns at once and the
\* connection is destroyed; a keep-alive response releases the connection
\* to the pool; another response shuts it down.
PerformRequestEnd(key, failed, keep_alive) ==
    /\ conn_pool_ # <<>>
    /\ in_request[key] > 0
    /\ in_request' = [in_request EXCEPT ![key] = in_request[key] - 1]
    /\ LET conns == IF ~failed /\ keep_alive
                    THEN ReleaseTo(conn_pool_[key], pool_now)
                    ELSE conn_pool_[key]
       IN  /\ conn_pool_' = [conn_pool_ EXCEPT ![key] = conns]
           /\ last_request' =
                 [path |-> "sync", key |-> key, keep_alive |-> keep_alive,
                  before |-> Len(conn_pool_[key]), after |-> Len(conns),
                  connection |-> IF failed THEN "failed"
                                 ELSE IF ~keep_alive THEN "shutdown"
                                 ELSE IF Len(conns) > Len(conn_pool_[key]) THEN "pooled"
                                 ELSE "dropped"]
    /\ UNCHANGED pool_now
    /\ UNCHANGED notPoolVars

\* RequestSession, from on_read to on_shutdown: the response is read and the
\* session's own stream is shut down.
RequestSessionRead(key, keep_alive) ==
    /\ conn_pool_ # <<>>
    /\ last_request' =
          [path |-> "async", key |-> key, keep_alive |-> keep_alive,
           before |-> Len(conn_pool_[key]), after |-> Len(conn_pool_[key]),
           connection |-> "shutdown"]
    /\ UNCHANGED <<conn_pool_, pool_now, in_request>>
    /\ UNCHANGED notPoolVars

\* Time passes, the connection timeout at a time.
PoolTick ==
    /\ conn_pool_ # <<>>
    /\ pool_now + kConnectionTimeout <= MaxTime
    /\ pool_now' = pool_now + kConnectionTimeout
    /\ UNCHANGED <<conn_pool_, in_request, last_request>>
    /\ UNCHANGED notPoolVars

\* HttpClient::Impl::shutdown: the pooled connections are cancelled and the
\* pool is cleared.
PoolShutdown ==
    /\ conn_pool_ # <<>>
    /\ \E key \in PoolKeys : conn_pool_[key] # <<>>
    /\ conn_pool_' = [key \in PoolKeys |-> <<>>]
    /\ UNCHANGED <<pool_now, in_request, last_request>>
    /\ UNCHANGED notPoolVars

NextPool ==
    \/ \E key \in PoolKeys : PerformRequestBegin(key)
    \/ \E key \in PoolKeys, failed, keep_alive \in BOOLEAN :
          PerformRequestEnd(key, failed, keep_alive)
    \/ \E key \in PoolKeys, keep_alive \in BOOLEAN : RequestSessionRead(key, keep_alive)
    \/ PoolTick
    \/ PoolShutdown

SpecPool == InitPool /\ [][NextPool]_vars

\* C35: the pool of a key never holds more than kMaxPoolSize connections,
\* and a release into a full pool leaves the pool as it was.
C35_PoolCap ==
    conn_pool_ # <<>> =>
        /\ \A key \in PoolKeys : Len(conn_pool_[key]) <= kMaxPoolSize
        /\ (last_request.connection \in { "pooled", "dropped" }
              /\ last_request.before >= kMaxPoolSize)
             => (last_request.connection = "dropped"
                 /\ last_request.after = last_request.before)

\* C35 witness: five threads were in requests to one key; four connections
\* are pooled and the fifth release was dropped.
C35_Witness ==
    /\ conn_pool_ # <<>>
    /\ Len(conn_pool_[1]) = kMaxPoolSize
    /\ last_request.key = 1
    /\ last_request.connection = "dropped"

\* C36: after a request, synchronous or asynchronous, whose response
\* declared keep-alive while the key's pool was under the cap, the
\* connection is in the pool; after a response without keep-alive it is shut
\* down and the pool has not grown.
C36_KeepAlivePooled ==
    last_request.path \in { "sync", "async" } /\ last_request.connection # "failed" =>
        IF last_request.keep_alive
        THEN last_request.before < kMaxPoolSize =>
                (last_request.connection = "pooled"
                 /\ last_request.after = last_request.before + 1)
        ELSE last_request.connection = "shutdown"
             /\ last_request.after = last_request.before

-----------------------------------------------------------------------------
(* Part XIV: DnsCache and its users (src/src/net/http_client.cpp):
   perform_request ("sync"), RequestSession ("async") and
   AsyncDownloadSession ("download").  The cache is a function from the keys
   it holds to their entries; the results of a resolve are named by the
   minute the resolve was made; time is in minutes. *)

kDefaultTTL == 5

kMaxCacheSize == 2

MaxMinutes == 8

DnsKeys == 1..3

RequestPaths == { "sync", "async", "download" }

\* now > it->second.expires_at
Expired(entry, now) == now > entry.expires_at

\* The keys evict_expired erases.
ExpiredKeys(cache, now) == { k \in DOMAIN cache : Expired(cache[k], now) }

Without(cache, keys) == [k \in DOMAIN cache \ keys |-> cache[k]]

\* evict_expired
evict_expired(cache, now) == Without(cache, ExpiredKeys(cache, now))

\* (AnyEntry is a faulty variant of Oldest: the loop ends on any entry.)
AnyEntry(cache) == DOMAIN cache

\* The entries the loop of put can end on: those with the least expires_at.
Oldest(cache) ==
    { k \in DOMAIN cache :
        \A j \in DOMAIN cache : cache[k].expires_at <= cache[j].expires_at }

\* DnsCache::put, with the entry the loop has ended on.
Put(cache, key, results, now, oldest) ==
    LET swept == IF Cardinality(DOMAIN cache) >= kMaxCacheSize
                 THEN evict_expired(cache, now) ELSE cache
        room == IF Cardinality(DOMAIN swept) >= kMaxCacheSize
                THEN Without(swept, { oldest } \cap Oldest(swept)) ELSE swept
    IN  [k \in DOMAIN room \cup { key } |->
            IF k = key THEN [results |-> results, expires_at |-> now + kDefaultTTL]
            ELSE room[k]]

\* The choices of the entry the loop ends on (any key when it does not run).
OldestChoices(cache, now) ==
    LET swept == IF Cardinality(DOMAIN cache) >= kMaxCacheSize
                 THEN evict_expired(cache, now) ELSE cache
    IN  IF Cardinality(DOMAIN swept) >= kMaxCacheSize THEN Oldest(swept) ELSE { 0 }

\* DnsCache::get: a hit, or a miss that erases the expired entry.
Get(cache, key, now) ==
    IF key \notin DOMAIN cache THEN [hit |-> FALSE, cache |-> cache]
    ELSE IF Expired(cache[key], now) THEN [hit |-> FALSE, cache |-> Without(cache, { key })]
    ELSE [hit |-> TRUE, cache |-> cache]

InitDns ==
    /\ EjsIdle
    /\ SessionIdle
    /\ SolverIdle
    /\ FormatIdle
    /\ DownloadIdle
    /\ SelectIdle
    /\ CoordIdle
    /\ AudioIdle
    /\ EngineIdle
    /\ SearchIdle
    /\ CliIdle
    /\ ThreadsIdle
    /\ JointIdle
    /\ PoolIdle
    /\ cache_ = <<>>
    /\ dns_now = 0
    /\ resolving = {}
    /\ dns_event = NoEvent

\* A request looks the key up.  On a hit perform_request uses the cached
\* results; RequestSession::run and AsyncDownloadSession::start_resolve call
\* on_resolve with them, which puts them into the cache again.  On a miss
\* the resolve begins.
Lookup(key, path) ==
    /\ LET got == Get(cache_, key, dns_now)
       IN  IF got.hit
           THEN /\ \E oldest \in OldestChoices(cache_, dns_now) :
                     cache_' = IF path = "sync" THEN cache_
                               ELSE Put(cache_, key, cache_[key].results, dns_now, oldest)
                /\ dns_event' = [kind |-> "hit", key |-> key,
                                 results |-> cache_[key].results, put |-> path # "sync"]
                /\ UNCHANGED resolving
           ELSE /\ cache_' = got.cache
                /\ resolving' = resolving \cup { key }
                /\ dns_event' = [kind |-> "miss", key |-> key, results |-> 0,
                                 put |-> FALSE]
    /\ UNCHANGED dns_now
    /\ UNCHANGED notDnsVars

\* The resolve ends: its results are put into the cache, or it has failed
\* and the request fails.
ResolveDone(key, ok) ==
    /\ key \in resolving
    /\ resolving' = resolving \ { key }
    /\ IF ok
       THEN /\ \E oldest \in OldestChoices(cache_, dns_now) :
                 cache_' = Put(cache_, key, dns_now, dns_now, oldest)
            /\ dns_event' = [kind |-> "resolve", key |-> key, results |-> dns_now,
                             put |-> TRUE]
       ELSE /\ UNCHANGED cache_
            /\ dns_event' = [kind |-> "resolve_failed", key |-> key, results |-> 0,
                             put |-> FALSE]
    /\ UNCHANGED dns_now
    /\ UNCHANGED notDnsVars

\* A request to the key fails in connect, handshake, write or read:
\* request_failed is returned or posted.
TransportFailure(key) ==
    /\ key \in DOMAIN cache_
    /\ dns_event' = [kind |-> "transport_failure", key |-> key, results |-> 0,
                     put |-> FALSE]
    /\ UNCHANGED <<cache_, dns_now, resolving>>
    /\ UNCHANGED notDnsVars

\* Time passes.
DnsTick ==
    /\ dns_now + (kDefaultTTL \div 2) <= MaxMinutes
    /\ dns_now' = dns_now + (kDefaultTTL \div 2)
    /\ dns_event' = NoEvent
    /\ UNCHANGED <<cache_, resolving>>
    /\ UNCHANGED notDnsVars

NextDns ==
    \/ \E key \in DnsKeys, path \in RequestPaths : Lookup(key, path)
    \/ \E key \in DnsKeys, ok \in BOOLEAN : ResolveDone(key, ok)
    \/ \E key \in DnsKeys : TransportFailure(key)
    \/ DnsTick

SpecDns == InitDns /\ [][NextDns]_vars

\* What a put has removed, the key it has written apart.
Removed == DOMAIN cache_ \ DOMAIN cache_'

\* The put of a key into a cache that is full has removed every expired
\* entry and, the cache being still full, one entry of the least expires_at
\* (which the key's own entry can be); a put into a cache with room has
\* removed nothing.
PutEvicts(key) ==
    LET expired == { k \in DOMAIN cache_ : cache_[k].expires_at < dns_now }
        left == DOMAIN cache_ \ expired
        least == { k \in left : \A j \in left : cache_[j].expires_at >= cache_[k].expires_at }
    IN  IF Cardinality(DOMAIN cache_) < kMaxCacheSize THEN Removed = {}
        ELSE IF Cardinality(left) < kMaxCacheSize
             THEN Removed = expired \ { key }
        ELSE \/ \E k \in least \ { key } : Removed = (expired \ { key }) \cup { k }
             \/ key \in least /\ Removed = expired \ { key }

\* C37: the cache never holds more than kMaxCacheSize entries, and a put
\* evicts as said above.
C37_CacheCapAndEviction ==
    /\ [](Cardinality(DOMAIN cache_) <= kMaxCacheSize)
    /\ [][(dns_event'.put /\ cache_' # cache_) => PutEvicts(dns_event'.key)]_vars

\* C37 witness: after the first entries have expired a resolve has put key 3
\* into the cache, which is full and still holds an older entry.
C37_Witness ==
    /\ dns_event.put
    /\ dns_event.key = 3
    /\ dns_event.kind = "resolve"
    /\ dns_now > kDefaultTTL
    /\ Cardinality(DOMAIN cache_) = kMaxCacheSize
    /\ \E k \in DOMAIN cache_ : cache_[k].expires_at < dns_now + kDefaultTTL

\* C38: the results of a resolve made at t are served from the cache until
\* t + kDefaultTTL and no later.
C38_CacheTtl ==
    dns_event.kind = "hit" => dns_now <= dns_event.results + kDefaultTTL

\* C39: a transport failure of a request to a key leaves no entry of that
\* key in the cache.
C39_FailureInvalidates ==
    dns_event.kind = "transport_failure" => dns_event.key \notin DOMAIN cache_

-----------------------------------------------------------------------------
(* Part XV: EjsSolver (src/src/ejs_solver.cpp).  Each solver holds a pointer
   js_ to a JsEngine; here two solvers hold the same engine, whose global
   object carries _preprocessed_player and _loaded_player_id.  A player
   script is named by a number; its player_id is that number, or 0 for the
   empty string; the preprocessed player of script p is named p too. *)

Solvers == { 1, 2 }

Players == { 1, 2 }

\* !player_id.empty() and globalThis._loaded_player_id === player_id
CachedPlayer(global_id, player_id) == player_id # 0 /\ global_id = player_id

InitEjs ==
    /\ SessionIdle
    /\ SolverIdle
    /\ FormatIdle
    /\ DownloadIdle
    /\ SelectIdle
    /\ CoordIdle
    /\ AudioIdle
    /\ EngineIdle
    /\ SearchIdle
    /\ CliIdle
    /\ ThreadsIdle
    /\ JointIdle
    /\ PoolIdle
    /\ DnsIdle
    /\ preprocessed_player = 0
    /\ loaded_player_id = 0
    /\ ready_ = [s \in Solvers |-> FALSE]
    /\ load_pc = [s \in Solvers |-> "idle"]
    /\ load_arg = [s \in Solvers |-> NoLoad]
    /\ ejs_loaded = [s \in Solvers |-> 0]
    /\ ejs_solve = NoEjsSolve

\* async_load_player_impl: the bundle is ensured; on failure handler(false),
\* else ready_ = false and the cache check or the preprocessing is submitted.
AsyncLoadPlayer(s, player_code, with_id, bundle_ok) ==
    /\ load_pc[s] = "idle"
    /\ IF bundle_ok
       THEN /\ ready_' = [ready_ EXCEPT ![s] = FALSE]
            /\ load_arg' = [load_arg EXCEPT ![s] =
                   [player_code |-> player_code,
                    player_id |-> IF with_id THEN player_code ELSE 0]]
            /\ load_pc' = [load_pc EXCEPT ![s] = IF with_id THEN "check" ELSE "preprocess"]
       ELSE UNCHANGED <<ready_, load_arg, load_pc>>
    /\ UNCHANGED <<preprocessed_player, loaded_player_id, ejs_loaded, ejs_solve>>
    /\ UNCHANGED notEjsVars

\* The handler of the cache check: ready on a hit, else the preprocessing.
LoadChecked(s, failed) ==
    /\ load_pc[s] = "check"
    /\ IF ~failed /\ CachedPlayer(loaded_player_id, load_arg[s].player_id)
       THEN /\ ready_' = [ready_ EXCEPT ![s] = TRUE]
            /\ load_pc' = [load_pc EXCEPT ![s] = "idle"]
            /\ ejs_loaded' = [ejs_loaded EXCEPT ![s] = load_arg[s].player_code]
       ELSE /\ load_pc' = [load_pc EXCEPT ![s] = "preprocess"]
            /\ UNCHANGED <<ready_, ejs_loaded>>
    /\ UNCHANGED <<preprocessed_player, loaded_player_id, load_arg, ejs_solve>>
    /\ UNCHANGED notEjsVars

\* The handler of the preprocessing in async_load_player_impl_continue: an
\* error ends the load; an output with preprocessed_player submits the script
\* that stores it; an output without it makes the solver ready.
LoadPreprocessed(s, outcome) ==
    /\ load_pc[s] = "preprocess"
    /\ CASE outcome = "error" ->
              /\ load_pc' = [load_pc EXCEPT ![s] = "idle"]
              /\ UNCHANGED <<ready_, ejs_loaded>>
         [] outcome = "preprocessed" ->
              /\ load_pc' = [load_pc EXCEPT ![s] = "store"]
              /\ UNCHANGED <<ready_, ejs_loaded>>
         [] outcome = "bare" ->
              /\ load_pc' = [load_pc EXCEPT ![s] = "idle"]
              /\ ready_' = [ready_ EXCEPT ![s] = TRUE]
              /\ ejs_loaded' = [ejs_loaded EXCEPT ![s] = 0]
    /\ UNCHANGED <<preprocessed_player, loaded_player_id, load_arg, ejs_solve>>
    /\ UNCHANGED notEjsVars

\* prep_code runs in the engine and its handler after it: the globals are
\* assigned, the solver is ready.
LoadStored(s, failed) ==
    /\ load_pc[s] = "store"
    /\ load_pc' = [load_pc EXCEPT ![s] = "idle"]
    /\ IF failed
       THEN UNCHANGED <<preprocessed_player, loaded_player_id, ready_, ejs_loaded>>
       ELSE /\ preprocessed_player' = load_arg[s].player_code
            /\ loaded_player_id' = IF load_arg[s].player_id # 0
                                   THEN load_arg[s].player_id ELSE loaded_player_id
            /\ ready_' = [ready_ EXCEPT ![s] = TRUE]
            /\ ejs_loaded' = [ejs_loaded EXCEPT ![s] = load_arg[s].player_code]
    /\ UNCHANGED <<load_arg, ejs_solve>>
    /\ UNCHANGED notEjsVars

\* async_solve_sig_impl and async_solve_n_impl: not ready, the challenge is
\* handed back; ready, jsc runs on globalThis._preprocessed_player.
AsyncSolve(s) ==
    /\ ejs_solve' = [solver |-> s, ready |-> ready_[s],
                     player |-> IF ready_[s] THEN preprocessed_player ELSE 0,
                     loaded |-> ejs_loaded[s]]
    /\ UNCHANGED <<preprocessed_player, loaded_player_id, ready_, load_pc, load_arg,
                   ejs_loaded>>
    /\ UNCHANGED notEjsVars

NextEjs ==
    \/ \E s \in Solvers, p \in Players, with_id \in BOOLEAN, bundle_ok \in BOOLEAN :
          AsyncLoadPlayer(s, p, with_id, bundle_ok)
    \/ \E s \in Solvers, failed \in BOOLEAN : LoadChecked(s, failed)
    \/ \E s \in Solvers, outcome \in { "error", "preprocessed", "bare" } :
          LoadPreprocessed(s, outcome)
    \/ \E s \in Solvers, failed \in BOOLEAN : LoadStored(s, failed)
    \/ \E s \in Solvers : AsyncSolve(s)

SpecEjs == InitEjs /\ [][NextEjs]_vars

\* C40: a solve through a solver that is ready, and whose load has produced
\* a preprocessed player, runs on the preprocessed player of the script that
\* this solver has loaded.
C40_SolveUsesOwnPlayer ==
    (ejs_solve.ready /\ ejs_solve.loaded # 0) => ejs_solve.player = ejs_solve.loaded

=============================================================================
